---------------------------- MODULE Spec2Model ----------------------------
(***************************************************************************)
(* A model of the routing, fallback and memory core of JARVIS-X:           *)
(*   jarvis/ai/model_router.py   (ModelRouter)                             *)
(*   jarvis/core/orchestrator.py (JarvisOrchestrator)                      *)
(*   jarvis/memory/short_term.py (ShortTermMemory)                         *)
(*   jarvis/memory/memory_manager.py, long_term.py                         *)
(*                                                                         *)
(* Conventions.  A Python str is a sequence of one-character strings, so   *)
(* that lower(), strip(), split() and the substring test `kw in text` are  *)
(* computed.  A fixed literal of the source inside a text is one element   *)
(* of the sequence, the literal itself.  quality_score is kept in          *)
(* hundredths (0.80 is 80).  An exception is a record with its type and    *)
(* its message.  An optional list is NoList or List(l).                    *)
(***************************************************************************)
EXTENDS Integers, Sequences, FiniteSets, TLC

VARIABLES
    registry,     \* ModelRouter._registry of the orchestrator's router (<<>>: no router)
    rcall,        \* one direct call of the router: its arguments and results
    limit,        \* ShortTermMemory._limit
    store,        \* ShortTermMemory._store: session id -> buffer
    added,        \* per session, every message added since its last clear
    nadds,        \* number of add/clear calls made directly on the memory
    initialized,  \* JarvisOrchestrator._initialized
    avail,        \* provider name -> what its is_available() returns now
    longmem,      \* the LongTermMemory behind MemoryManager.long
    reqs,         \* the process_message and process_stream calls: slot -> frame
    running,      \* the request whose coroutine holds the event loop, or 0
    nreqs,        \* number of process_message calls started
    concurrency   \* how many calls the callers keep in flight at once

vars == <<registry, rcall, limit, store, added, nadds,
          initialized, avail, longmem, reqs, running, nreqs, concurrency>>

None == "None"

\* an argument that is None or a list
NoList == <<>>
List(l) == <<l>>

(***************************************************************************)
(* Bounds of the model.                                                    *)
(***************************************************************************)
MaxFill == 21       \* filler words appended to an input text
MaxLimit == 3       \* largest configured short_term_limit
MaxAdds == 6        \* direct add/clear calls on the short-term memory
MaxRequests == 1    \* calls in one behaviour, beside those kept in flight with them
MaxChunks == 2      \* fragments a provider stream yields

(***************************************************************************)
(* model_router.py: the registry                                           *)
(***************************************************************************)
ModelConfig(n, p, l, q, o) ==
    [name |-> n, provider |-> p, latency_ms |-> l, quality_score |-> q,
     offline_capable |-> o]

MODEL_REGISTRY ==
    << ModelConfig("llama-3.1-8b-instant", "groq", 300, 80, FALSE),
       ModelConfig("mixtral-8x7b-32768", "groq", 600, 88, FALSE),
       ModelConfig("llama-3.3-70b-versatile", "groq", 800, 95, FALSE),
       ModelConfig("google/gemini-2.0-flash-exp:free", "openrouter", 400, 85, FALSE),
       ModelConfig("meta-llama/llama-3.3-70b-instruct:free", "openrouter", 500, 90, FALSE),
       ModelConfig("deepseek/deepseek-r1:free", "openrouter", 2000, 93, FALSE),
       ModelConfig("phi3:mini", "ollama", 3000, 65, TRUE),
       ModelConfig("mistral:7b", "ollama", 5000, 75, TRUE),
       ModelConfig("qwen2.5:3b", "ollama", 4000, 60, TRUE) >>

COMPLEX_KEYWORDS ==
    { <<"e","x","p","l","a","i","n">>,
      <<"a","n","a","l","y","z","e">>,
      <<"c","o","m","p","a","r","e">>,
      <<"s","u","m","m","a","r","i","z","e">>,
      <<"w","r","i","t","e">>,
      <<"c","r","e","a","t","e">>,
      <<"g","e","n","e","r","a","t","e">>,
      <<"d","e","s","i","g","n">>,
      <<"i","m","p","l","e","m","e","n","t">>,
      <<"s","o","l","v","e">>,
      <<"t","u","s","h","u","n","t","i","r">>,
      <<"t","a","h","l","i","l">>,
      <<"s","o","l","i","s","h","t","i","r">>,
      <<"y","o","z">>,
      <<"y","a","r","a","t","i","s","h">>,
      <<"i","s","h","l","a","b"," ","c","h","i","q">>,
      <<"q","a","n","d","a","y"," ","q","i","l","i","b">>,
      <<"n","i","m","a"," ","u","c","h","u","n">>,
      <<"w","h","y">>,
      <<"h","o","w">>,
      <<"d","i","f","f","e","r","e","n","c","e">>,
      <<"p","r","o","s"," ","a","n","d"," ","c","o","n","s">> }

TRIVIAL_KEYWORDS ==
    { <<"h","i">>,
      <<"h","e","l","l","o">>,
      <<"s","a","l","o","m">>,
      <<"a","s","s","a","l","o","m","u"," ","a","l","a","y","k","u","m">>,
      <<"h","e","y">>,
      <<"t","h","a","n","k","s">>,
      <<"r","a","h","m","a","t">>,
      <<"o","k">>,
      <<"y","e","s">>,
      <<"n","o">>,
      <<"h","a">>,
      <<"y","o","'","q">>,
      <<"b","y","e">>,
      <<"x","a","y","r">> }

(***************************************************************************)
(* Python str operations used by classify_task                             *)
(***************************************************************************)
UpperCase == <<"A","B","C","D","E","F","G","H","I","J","K","L","M",
               "N","O","P","Q","R","S","T","U","V","W","X","Y","Z">>
LowerCase == <<"a","b","c","d","e","f","g","h","i","j","k","l","m",
               "n","o","p","q","r","s","t","u","v","w","x","y","z">>

Whitespace == {" ", "\t", "\n"}

\* str.lower()
StrLower(text) ==
    [i \in 1..Len(text) |->
        IF \E k \in 1..Len(UpperCase) : UpperCase[k] = text[i]
        THEN LowerCase[CHOOSE k \in 1..Len(UpperCase) : UpperCase[k] = text[i]]
        ELSE text[i]]

\* str.strip()
StrStrip(text) ==
    LET solid == {i \in 1..Len(text) : text[i] \notin Whitespace}
    IN  IF solid = {} THEN <<>>
        ELSE SubSeq(text,
                    CHOOSE i \in solid : \A j \in solid : i <= j,
                    CHOOSE i \in solid : \A j \in solid : j <= i)

\* len(str.split()): the number of maximal runs of non-whitespace characters
SplitLen(text) ==
    Cardinality({i \in 1..Len(text) :
                    /\ text[i] \notin Whitespace
                    /\ (i = 1 \/ text[i - 1] \in Whitespace)})

\* kw in text
StrContains(kw, text) ==
    \E i \in 1..(Len(text) - Len(kw) + 1) :
        /\ text[i] = kw[1]
        /\ SubSeq(text, i, i + Len(kw) - 1) = kw

\* any(kw in text for kw in keywords)
AnyKeyword(keywords, text) == \E kw \in keywords : StrContains(kw, text)

(***************************************************************************)
(* ModelRouter                                                             *)
(***************************************************************************)
\* ModelRouter.__init__: registry or _MODEL_REGISTRY
ModelRouterInit(reg) == IF reg = <<>> THEN MODEL_REGISTRY ELSE reg

get_models_except_keeps_all(reg, model_name) == reg


\* ModelRouter.get_models_except
get_models_except(reg, model_name) ==
    LET keep(m) == m.name # model_name
    IN  SelectSeq(reg, keep)

classify_task_complex_first(user_input) ==
    LET text == StrStrip(StrLower(user_input))
    IN  IF AnyKeyword(COMPLEX_KEYWORDS, text) \/ SplitLen(text) > 20
        THEN "complex"
        ELSE IF SplitLen(text) <= 3 /\ AnyKeyword(TRIVIAL_KEYWORDS, text)
        THEN "trivial"
        ELSE IF AnyKeyword(TRIVIAL_KEYWORDS, text)
        THEN "simple"
        ELSE IF SplitLen(text) > 8
        THEN "moderate"
        ELSE "simple"

\* ModelRouter.classify_task
classify_task(user_input) ==
    LET text == StrStrip(StrLower(user_input))
    IN  IF SplitLen(text) <= 3 /\ AnyKeyword(TRIVIAL_KEYWORDS, text)
        THEN "trivial"
        ELSE IF AnyKeyword(TRIVIAL_KEYWORDS, text)
        THEN "simple"
        ELSE IF AnyKeyword(COMPLEX_KEYWORDS, text) \/ SplitLen(text) > 20
        THEN "complex"
        ELSE IF SplitLen(text) > 8
        THEN "moderate"
        ELSE "simple"

\* min(candidates, key=lambda m: m.latency_ms): Python keeps the first of the
\* smallest, replacing the running best only by a strictly smaller key.
RECURSIVE PyMinLatencyFrom(_, _, _)
PyMinLatencyFrom(cands, i, best) ==
    IF i > Len(cands) THEN best
    ELSE PyMinLatencyFrom(cands, i + 1,
            IF cands[i].latency_ms < best.latency_ms THEN cands[i] ELSE best)

PyMinLatency_last(cands) ==
    LET RECURSIVE go(_, _)
        go(i, best) ==
            IF i > Len(cands) THEN best
            ELSE go(i + 1, IF cands[i].latency_ms <= best.latency_ms
                           THEN cands[i] ELSE best)
    IN  go(2, cands[1])

PyMinLatency(cands) == PyMinLatencyFrom(cands, 2, cands[1])

\* max(candidates, key=lambda m: m.quality_score): the first of the largest.
RECURSIVE PyMaxQualityFrom(_, _, _)
PyMaxQualityFrom(cands, i, best) ==
    IF i > Len(cands) THEN best
    ELSE PyMaxQualityFrom(cands, i + 1,
            IF cands[i].quality_score > best.quality_score THEN cands[i] ELSE best)

PyMaxQuality_last(cands) ==
    LET RECURSIVE go(_, _)
        go(i, best) ==
            IF i > Len(cands) THEN best
            ELSE go(i + 1, IF cands[i].quality_score >= best.quality_score
                           THEN cands[i] ELSE best)
    IN  go(2, cands[1])

PyMaxQuality(cands) == PyMaxQualityFrom(cands, 2, cands[1])

RuntimeError(msg) == [raised |-> "RuntimeError", msg |-> msg]
Returned(v) == [raised |-> None, value |-> v]

\* str(list) of a list of str: ['a', 'b']
RECURSIVE PyListItems(_)
PyListItems(l) ==
    IF l = <<>> THEN <<>>
    ELSE IF Len(l) = 1 THEN <<"'", l[1], "'">>
    ELSE <<"'", l[1], "'", ", ">> \o PyListItems(Tail(l))

PyListRepr(l) == <<"[">> \o PyListItems(l) \o <<"]">>

NoProvidersMsg(available_providers) ==
    <<"No models available for providers: ">> \o PyListRepr(available_providers)
NoOfflineMsg == <<"No offline-capable models available.">>

select_model_offline_first(reg, user_input, force_offline, available_providers) ==
    LET offl(m) == m.offline_capable
        c1 == IF force_offline THEN SelectSeq(reg, offl) ELSE reg
        allowed(m) == \E k \in 1..Len(available_providers[1]) :
                          available_providers[1][k] = m.provider
        c2 == IF available_providers # NoList THEN SelectSeq(c1, allowed) ELSE c1
    IN  IF force_offline /\ c1 = <<>> THEN RuntimeError(NoOfflineMsg)
        ELSE IF available_providers # NoList /\ c2 = <<>>
        THEN RuntimeError(NoProvidersMsg(available_providers[1]))
        ELSE IF classify_task(user_input) \in {"trivial", "simple"}
        THEN Returned(PyMinLatency(c2))
        ELSE Returned(PyMaxQuality(c2))

select_model_ignores_offline(reg, user_input, force_offline, available_providers) ==
    LET allowed(m) == \E k \in 1..Len(available_providers[1]) :
                          available_providers[1][k] = m.provider
        c1 == IF available_providers # NoList THEN SelectSeq(reg, allowed) ELSE reg
    IN  IF available_providers # NoList /\ c1 = <<>>
        THEN RuntimeError(NoProvidersMsg(available_providers[1]))
        ELSE IF classify_task(user_input) \in {"trivial", "simple"}
        THEN Returned(PyMinLatency(c1))
        ELSE Returned(PyMaxQuality(c1))

\* ModelRouter.select_model
select_model(reg, user_input, force_offline, available_providers) ==
    LET complexity == classify_task(user_input)
        allowed(m) == \E k \in 1..Len(available_providers[1]) :
                          available_providers[1][k] = m.provider
        c1 == IF available_providers # NoList THEN SelectSeq(reg, allowed) ELSE reg
        offl(m) == m.offline_capable
        c2 == IF force_offline THEN SelectSeq(c1, offl) ELSE c1
    IN  IF available_providers # NoList /\ c1 = <<>>
        THEN RuntimeError(NoProvidersMsg(available_providers[1]))
        ELSE IF force_offline /\ c2 = <<>>
        THEN RuntimeError(NoOfflineMsg)
        ELSE IF complexity \in {"trivial", "simple"}
        THEN Returned(PyMinLatency(c2))
        ELSE Returned(PyMaxQuality(c2))

(***************************************************************************)
(* short_term.py: ShortTermMemory                                          *)
(***************************************************************************)
Sessions == {"s1", "s2"}
Roles == {"system", "user", "assistant"}

Message(role, content) == [role |-> role, content |-> content]

IsSystem(m) == m.role = "system"
NotSystem(m) == m.role # "system"

PyMax(a, b) == IF a >= b THEN a ELSE b

\* ShortTermMemory.__init__: self._limit = max(1, limit)
ShortTermInit(lim) == PyMax(1, lim)

PyLast_oldest(s, n) == SubSeq(s, 1, IF n <= Len(s) THEN n ELSE Len(s))

\* non_system[-budget:] for budget > 0
PyLast(s, n) == SubSeq(s, PyMax(1, Len(s) - n + 1), Len(s))

Trim_kept_then_pinned(buf, lim) ==
    IF Len(buf) <= lim THEN buf
    ELSE LET system_msgs == SelectSeq(buf, IsSystem)
             non_system == SelectSeq(buf, NotSystem)
             budget == PyMax(0, lim - Len(system_msgs))
         IN  (IF budget > 0
              THEN SubSeq(non_system, PyMax(1, Len(non_system) - budget + 1),
                          Len(non_system))
              ELSE <<>>) \o system_msgs

Trim_drop_oldest(buf, lim) ==
    IF Len(buf) <= lim THEN buf ELSE PyLast(buf, lim)

Trim_budget_is_limit(buf, lim) ==
    IF Len(buf) <= lim THEN buf
    ELSE SelectSeq(buf, IsSystem) \o PyLast(SelectSeq(buf, NotSystem), lim)

Trim_keeps_oldest(buf, lim) ==
    IF Len(buf) <= lim THEN buf
    ELSE LET system_msgs == SelectSeq(buf, IsSystem)
             non_system == SelectSeq(buf, NotSystem)
             budget == PyMax(0, lim - Len(system_msgs))
         IN  system_msgs \o SubSeq(non_system, 1, budget)

\* ShortTermMemory._trim, on the buffer of one session
Trim(buf, lim) ==
    IF Len(buf) <= lim THEN buf
    ELSE LET system_msgs == SelectSeq(buf, IsSystem)
             non_system == SelectSeq(buf, NotSystem)
             budget == PyMax(0, lim - Len(system_msgs))
             trimmed_non_system ==
                 IF budget > 0 THEN PyLast(non_system, budget) ELSE <<>>
         IN  system_msgs \o trimmed_non_system

\* ShortTermMemory.add: append, then _trim
ShortTermAdd(st, lim, session_id, role, content) ==
    [st EXCEPT ![session_id] = Trim(Append(@, Message(role, content)), lim)]

\* ShortTermMemory.get_context (a missing key reads as an empty deque)
get_context(st, session_id) == st[session_id]

ShortTermClear_all(st, session_id) == [s \in DOMAIN st |-> <<>>]

\* ShortTermMemory.clear
ShortTermClear(st, session_id) == [st EXCEPT ![session_id] = <<>>]

EmptyStore == [s \in Sessions |-> <<>>]

(***************************************************************************)
(* Inputs of the direct router calls                                       *)
(***************************************************************************)
W_hi == <<"h","i">>
W_Hello == <<"H","e","l","l","o">>
W_this == <<"t","h","i","s">>
W_Why == <<"W","h","y">>
W_tell == <<"t","e","l","l">>
W_x == <<"x">>

HeadWords == {W_hi, W_Hello, W_this, W_Why, W_tell}

RECURSIVE JoinWords(_)
JoinWords(ws) ==
    IF ws = <<>> THEN <<>>
    ELSE IF Len(ws) = 1 THEN ws[1]
    ELSE ws[1] \o <<" ">> \o JoinWords(Tail(ws))

\* the words of h, then n filler words, inside the padding
InputText(h, n, pad) == pad \o JoinWords(h \o [k \in 1..n |-> W_x]) \o pad

\* texts given to classify_task: up to two head words, then filler words,
\* optionally padded with blanks
ClassifyInputs ==
    LET heads == {<<>>} \cup {<<w>> : w \in HeadWords}
                        \cup {<<v, w>> : v \in HeadWords, w \in {W_hi, W_Why, W_tell}}
    IN  { InputText(h, n, pad) :
            h \in heads, n \in 0..MaxFill, pad \in {<<>>, <<" ">>} }

\* texts given to select_model: they cover the four complexities
SelectInputs ==
    { InputText(h, n, <<>>) :
        h \in {<<>>, <<W_hi>>, <<W_Why>>, <<W_hi, W_Why>>}, n \in 0..MaxFill }

ScenarioARegistry ==
    << ModelConfig("fast", "groq", 300, 80, FALSE),
       ModelConfig("mid", "groq", 600, 88, FALSE),
       ModelConfig("best", "groq", 800, 95, FALSE) >>

TieRegistry ==
    << ModelConfig("t1", "groq", 500, 90, FALSE),
       ModelConfig("t2", "ollama", 300, 70, TRUE),
       ModelConfig("t3", "openrouter", 300, 90, FALSE),
       ModelConfig("t4", "ollama", 300, 70, TRUE),
       ModelConfig("t5", "groq", 500, 90, FALSE) >>

RouterRegistries == {<<>>, ScenarioARegistry, TieRegistry}

AllowedLists ==
    {NoList} \cup
    {List(l) : l \in {<<>>, <<"groq">>, <<"ollama">>, <<"openrouter">>,
                      <<"groq", "openrouter">>, <<"groq", "openrouter", "ollama">>}}

DigitChars == <<"1","2","3","4","5","6","7","8","9">>

\* no direct call of the router
NoCall ==
    [op |-> None, user_input |-> <<>>, force_offline |-> FALSE,
     available_providers |-> NoList, pc |-> "none", complexity |-> None,
     result |-> None]

(***************************************************************************)
(* long_term.py and memory_manager.py                                      *)
(***************************************************************************)
PyMin(a, b) == IF a <= b THEN a ELSE b

\* LongTermMemory as MemoryManager holds it: `available` is False when
\* chromadb could not be set up (MemoryManager.long is then None)
LongTermInit(available) == [available |-> available, docs |-> <<>>]

LongStore_upsert(lm, text, metadata) ==
    IF ~lm.available THEN lm
    ELSE IF \E i \in 1..Len(lm.docs) : lm.docs[i].metadata = metadata
    THEN [lm EXCEPT !.docs = [i \in 1..Len(@) |->
                                 IF @[i].metadata = metadata
                                 THEN [text |-> text, metadata |-> metadata]
                                 ELSE @[i]]]
    ELSE [lm EXCEPT !.docs = Append(@, [text |-> text, metadata |-> metadata])]


\* LongTermMemory.store: one more document in the collection
LongStore(lm, text, metadata) ==
    IF ~lm.available THEN lm
    ELSE [lm EXCEPT !.docs = Append(@, [text |-> text, metadata |-> metadata])]

\* LongTermMemory.search: [] when the collection is empty or the query raises,
\* else min(n_results, count) distinct records in the order the index ranks
\* them, which this model leaves open
LongSearch(lm, n_results) ==
    IF ~lm.available \/ Len(lm.docs) = 0 THEN {<<>>}
    ELSE LET k == PyMin(n_results, Len(lm.docs))
             picks == {f \in [1..k -> 1..Len(lm.docs)] :
                          \A a, b \in 1..k : a # b => f[a] # f[b]}
         IN  {<<>>} \cup {[j \in 1..k |-> lm.docs[f[j]]] : f \in picks}

\* what MemoryManager.build_context may get from self.long.search(query, 3)
SearchOutcomes(lm) == IF ~lm.available THEN {<<>>} ELSE LongSearch(lm, 3)

\* "\n".join(f"[Memory {i + 1}]: {m['text']}" for i, m in enumerate(memories))
RECURSIVE MemoryText(_, _)
MemoryText(memories, i) ==
    IF i > Len(memories) THEN <<>>
    ELSE (IF i > 1 THEN <<"\n">> ELSE <<>>)
         \o <<"[Memory ", DigitChars[i], "]: ">> \o memories[i].text
         \o MemoryText(memories, i + 1)

build_context_one_per_memory(st, lm, session_id, memories) ==
    LET short_ctx == get_context(st, session_id)
    IN  IF ~lm.available THEN short_ctx
        ELSE [i \in 1..Len(memories) |->
                 Message("system", <<"Relevant past interactions:\n">>
                                       \o MemoryText(<<memories[i]>>, 1))]
             \o short_ctx

build_context_summary_last(st, lm, session_id, memories) ==
    LET short_ctx == get_context(st, session_id)
    IN  IF ~lm.available THEN short_ctx
        ELSE IF memories = <<>> THEN short_ctx
        ELSE short_ctx \o <<Message("system", <<"Relevant past interactions:\n">>
                                                  \o MemoryText(memories, 1))>>


\* MemoryManager.build_context; `memories` is what the search returned
build_context(st, lm, session_id, memories) ==
    LET short_ctx == get_context(st, session_id)
    IN  IF ~lm.available THEN short_ctx
        ELSE IF memories = <<>> THEN short_ctx
        ELSE <<Message("system", <<"Relevant past interactions:\n">>
                                     \o MemoryText(memories, 1))>> \o short_ctx

\* the short-term half of MemoryManager.save_interaction
SaveShort(st, lim, session_id, user_msg, assistant_msg) ==
    ShortTermAdd(ShortTermAdd(st, lim, session_id, "user", user_msg),
                 lim, session_id, "assistant", assistant_msg)

SaveLong_per_turn(lm, session_id, user_msg, assistant_msg) ==
    IF ~lm.available THEN lm
    ELSE LongStore(LongStore(lm, <<"User: ">> \o user_msg,
                             [session_id |-> session_id]),
                   <<"Assistant: ">> \o assistant_msg, [session_id |-> session_id])

\* the long-term half of MemoryManager.save_interaction
SaveLong(lm, session_id, user_msg, assistant_msg) ==
    IF ~lm.available THEN lm
    ELSE LongStore(lm, <<"User: ">> \o user_msg \o <<"\nAssistant: ">> \o assistant_msg,
                   [session_id |-> session_id])

(***************************************************************************)
(* orchestrator.py: JarvisOrchestrator                                     *)
(***************************************************************************)
SYSTEM_PROMPT == <<"You are JARVIS-X, a next-generation AI assistant. ...">>

UNAVAILABLE_MESSAGE ==
    <<"I'm currently unavailable. Please check your API key or internet connection.">>

\* the keys of self._providers, in dict order
Providers == <<"groq", "openrouter", "ollama">>

NoProviders == [p \in {"groq", "openrouter", "ollama"} |-> FALSE]

\* JarvisOrchestrator.get_available_providers
get_available_providers(av) ==
    LET up(p) == av[p]
    IN  SelectSeq(Providers, up)

AvailableOrNone_keeps_empty(available) == List(available)

\* available_providers=available or None
AvailableOrNone(available) == IF available = <<>> THEN NoList ELSE List(available)

ProviderReady_exists(av, name) == \E k \in 1..Len(Providers) : Providers[k] = name

\* provider = self._providers.get(name); provider and provider.is_available()
ProviderReady(av, name) ==
    /\ \E k \in 1..Len(Providers) : Providers[k] = name
    /\ av[name]

PySortedByLatency_unstable(ms) ==
    LET RECURSIVE go(_)
        go(l) ==
            IF l = <<>> THEN <<>>
            ELSE LET rest == go(SubSeq(l, 1, Len(l) - 1))
                     m == l[Len(l)]
                     k == Cardinality({i \in 1..Len(rest) :
                                          rest[i].latency_ms < m.latency_ms})
                 IN  SubSeq(rest, 1, k) \o <<m>> \o SubSeq(rest, k + 1, Len(rest))
    IN  go(ms)

\* sorted(fallbacks, key=lambda m: m.latency_ms): a stable sort; the last
\* element goes behind every element whose key is not larger
RECURSIVE PySortedByLatency(_)
PySortedByLatency(ms) ==
    IF ms = <<>> THEN <<>>
    ELSE LET rest == PySortedByLatency(SubSeq(ms, 1, Len(ms) - 1))
             m == ms[Len(ms)]
             k == Cardinality({i \in 1..Len(rest) :
                                  rest[i].latency_ms <= m.latency_ms})
         IN  SubSeq(rest, 1, k) \o <<m>> \o SubSeq(rest, k + 1, Len(rest))

Reqs == {1, 2}

\* the frame of a call.  Beside the locals of the code it keeps what the call
\* did: `log`, the fragments `emitted` to the consumer of a stream, the
\* messages it `saved` to short-term memory and the number of long-term
\* records it `stored`.
IdleFrame ==
    [pc |-> "idle", op |-> None, user_input |-> <<>>, session_id |-> None,
     force_offline |-> FALSE, messages |-> <<>>, available |-> <<>>,
     model_cfg |-> None, phase |-> None, fallbacks |-> <<>>, idx |-> 0, cur |-> None,
     full_response |-> <<>>, emitted |-> <<>>, saved |-> <<>>, stored |-> 0,
     log |-> <<>>, result |-> None]

\* the calls that were made and whose result the caller has not taken yet
InFlight == {r \in Reqs : reqs[r].pc # "idle"}

\* one entry of a request's log: what _call_with_fallback did with a model
\* (`ready`: whether the model's provider exists and reports available then)
LogEntry(m, phase, kind) ==
    [model |-> m, phase |-> phase, kind |-> kind,
     ready |-> m.provider \in DOMAIN avail /\ avail[m.provider],
     outcome |-> None, text |-> <<>>]

\* the frame after the last logged call has ended with `outcome`
Ended(f, outcome, text) ==
    [f EXCEPT !.log[Len(f.log)].outcome = outcome, !.log[Len(f.log)].text = text]

\* the dict process_message returns
Result(response, model_used) ==
    [raised |-> None, response |-> response, model_used |-> model_used]

\* process_message ends by raising
Raised(type) == [raised |-> type, response |-> <<>>, model_used |-> None]

\* JarvisOrchestrator.initialize: a fresh memory, the default router and the
\* three providers; the credentials and the vector store are there or not
Initialize ==
    /\ ~initialized
    /\ InFlight = {}
    /\ initialized' = TRUE
    /\ registry' = ModelRouterInit(<<>>)
    /\ store' = EmptyStore
    /\ added' = EmptyStore
    /\ longmem' \in {LongTermInit(a) : a \in BOOLEAN}
    /\ avail' \in [{"groq", "openrouter", "ollama"} -> BOOLEAN]
    /\ UNCHANGED <<rcall, limit, nadds, reqs, running, nreqs, concurrency>>

\* JarvisOrchestrator.set_router, called between requests
SetRouter(reg) ==
    /\ InFlight = {}
    /\ registry' = ModelRouterInit(reg)
    /\ UNCHANGED <<rcall, limit, store, added, nadds, initialized, avail,
                   longmem, reqs, running, nreqs, concurrency>>

OllamaChange_any_key ==
    /\ initialized
    /\ \E p \in {"groq", "openrouter", "ollama"} : avail' = [avail EXCEPT ![p] = ~@]
    /\ UNCHANGED <<registry, rcall, limit, store, added, nadds, initialized,
                   longmem, reqs, running, nreqs, concurrency>>


\* the Ollama server starts or stops answering the probe of is_available
OllamaChange ==
    /\ initialized
    /\ avail' = [avail EXCEPT !["ollama"] = ~@]
    /\ UNCHANGED <<registry, rcall, limit, store, added, nadds, initialized,
                   longmem, reqs, running, nreqs, concurrency>>

ExceptRuntimeError_unrecorded(st, lim, session_id, msg) == st

\* process_message, except RuntimeError as exc: the message of the exception is
\* added to the session as an assistant message
ExceptRuntimeError(st, lim, session_id, msg) ==
    ShortTermAdd(st, lim, session_id, "assistant", msg)

\* process_message up to the call of _call_with_fallback: context, selection
Begin(r, text, sid, fo) ==
    /\ initialized
    /\ running = 0
    /\ reqs[r].pc = "idle"
    /\ \A q \in Reqs : reqs[q].pc = "idle" => r <= q
    /\ nreqs < MaxRequests + concurrency - 1
    /\ Cardinality(InFlight) < concurrency
    /\ nreqs' = nreqs + 1
    /\ \E memories \in SearchOutcomes(longmem) :
         LET context == build_context(store, longmem, sid, memories)
             messages == <<Message("system", SYSTEM_PROMPT)>> \o context
             available == get_available_providers(avail)
             sel == select_model(registry, text, fo,
                                 AvailableOrNone(available))
             f == [IdleFrame EXCEPT !.op = "process_message",
                                    !.user_input = text, !.session_id = sid,
                                    !.force_offline = fo, !.messages = messages,
                                    !.available = available]
         IN  IF sel.raised # None
             THEN /\ store' = ExceptRuntimeError(store, limit, sid, sel.msg)
                  /\ added' = [added EXCEPT ![sid] =
                                  Append(@, Message("assistant", sel.msg))]
                  /\ reqs' = [reqs EXCEPT ![r] =
                                 [f EXCEPT !.pc = "done",
                                           !.saved = <<Message("assistant", sel.msg)>>,
                                           !.result = Result(sel.msg, "none")]]
                  /\ running' = 0
             ELSE /\ reqs' = [reqs EXCEPT ![r] =
                                 [f EXCEPT !.pc = "primary",
                                           !.phase = "primary",
                                           !.model_cfg = sel.value]]
                  /\ running' = r
                  /\ UNCHANGED <<store, added>>
    /\ UNCHANGED <<registry, rcall, limit, nadds, initialized, avail, longmem,
                   concurrency>>

\* the frame entering the fallback loop of _call_with_fallback
EnterFallback(f) ==
    [f EXCEPT !.pc = "fallback", !.phase = "fallback", !.cur = None,
              !.fallbacks = PySortedByLatency(
                                get_models_except(registry, f.model_cfg.name)),
              !.idx = 1]

ExceptProviderError_fallback_uncaught(f) ==
    IF f.phase = "primary" THEN EnterFallback(f)
    ELSE [f EXCEPT !.pc = "done", !.cur = None, !.result = Raised("ProviderError")]

\* except ProviderError: `pass` after the primary attempt, `continue` in the
\* fallback loop
ExceptProviderError(f) ==
    IF f.phase = "primary" THEN EnterFallback(f)
    ELSE [f EXCEPT !.pc = "fallback", !.cur = None, !.idx = @ + 1]

TryPrimary_speculative(r) ==
    /\ running = r
    /\ reqs[r].pc = "primary"
    /\ LET f == reqs[r]
           m == f.model_cfg
           kind == IF ProviderReady(avail, m.provider) THEN "call" ELSE "unavailable"
       IN  reqs' = [reqs EXCEPT ![r] =
                       EnterFallback([f EXCEPT !.log =
                           Append(@, LogEntry(m, "primary", kind))])]
    /\ running' = r
    /\ UNCHANGED <<registry, rcall, limit, store, added, nadds, initialized,
                   avail, longmem, nreqs, concurrency>>


\* _call_with_fallback, the primary attempt: generate is awaited only on a
\* provider that exists and reports available
TryPrimary(r) ==
    /\ running = r
    /\ reqs[r].pc = "primary"
    /\ LET f == reqs[r]
           m == f.model_cfg
       IN  IF ProviderReady(avail, m.provider)
           THEN /\ reqs' = [reqs EXCEPT ![r] =
                               [f EXCEPT !.pc = "gen", !.cur = m,
                                         !.log = Append(@, LogEntry(m, "primary", "call"))]]
                /\ running' = 0
           ELSE /\ reqs' = [reqs EXCEPT ![r] =
                               EnterFallback([f EXCEPT !.log =
                                   Append(@, LogEntry(m, "primary", "unavailable"))])]
                /\ running' = r
    /\ UNCHANGED <<registry, rcall, limit, store, added, nadds, initialized,
                   avail, longmem, nreqs, concurrency>>

Finish_writes_back_snapshot(r, f, response_text) ==
    /\ store' = SaveShort([store EXCEPT ![f.session_id] =
                              SelectSeq(Tail(f.messages), NotSystem)],
                          limit, f.session_id, f.user_input, response_text)
    /\ added' = [added EXCEPT ![f.session_id] =
                    @ \o <<Message("user", f.user_input),
                           Message("assistant", response_text)>>]
    /\ longmem' = SaveLong(longmem, f.session_id, f.user_input, response_text)
    /\ reqs' = [reqs EXCEPT ![r] =
                   [f EXCEPT !.pc = "done", !.cur = None,
                             !.saved = <<Message("user", f.user_input),
                                         Message("assistant", response_text)>>,
                             !.stored = IF longmem.available THEN 1 ELSE 0,
                             !.result = Result(response_text, f.model_cfg.name)]]
    /\ running' = 0

Finish_retries_when_unavailable(r, f, response_text) ==
    IF response_text = UNAVAILABLE_MESSAGE
    THEN /\ reqs' = [reqs EXCEPT ![r] =
                        [f EXCEPT !.pc = "primary", !.phase = "primary",
                                  !.cur = None, !.fallbacks = <<>>, !.idx = 0,
                                  !.log = <<>>]]
         /\ running' = r
         /\ UNCHANGED <<store, added, longmem>>
    ELSE /\ store' = SaveShort(store, limit, f.session_id, f.user_input,
                               response_text)
         /\ added' = [added EXCEPT ![f.session_id] =
                         @ \o <<Message("user", f.user_input),
                                Message("assistant", response_text)>>]
         /\ longmem' = SaveLong(longmem, f.session_id, f.user_input, response_text)
         /\ reqs' = [reqs EXCEPT ![r] =
                        [f EXCEPT !.pc = "done", !.cur = None,
                                  !.saved = <<Message("user", f.user_input),
                                              Message("assistant", response_text)>>,
                                  !.stored = IF longmem.available THEN 1 ELSE 0,
                                  !.result = Result(response_text, f.model_cfg.name)]]
         /\ running' = 0


\* process_message after _call_with_fallback returned response_text:
\* save_interaction, then the result
Finish(r, f, response_text) ==
    /\ store' = SaveShort(store, limit, f.session_id, f.user_input, response_text)
    /\ added' = [added EXCEPT ![f.session_id] =
                    @ \o <<Message("user", f.user_input),
                           Message("assistant", response_text)>>]
    /\ longmem' = SaveLong(longmem, f.session_id, f.user_input, response_text)
    /\ reqs' = [reqs EXCEPT ![r] =
                   [f EXCEPT !.pc = "done", !.cur = None,
                             !.saved = <<Message("user", f.user_input),
                                         Message("assistant", response_text)>>,
                             !.stored = IF longmem.available THEN 1 ELSE 0,
                             !.result = Result(response_text, f.model_cfg.name)]]
    /\ running' = 0

GenerateReturns_goes_on(r, text) ==
    /\ running = 0
    /\ reqs[r].pc = "gen"
    /\ reqs' = [reqs EXCEPT ![r] = ExceptProviderError(Ended(reqs[r], "ok", text))]
    /\ running' = r
    /\ UNCHANGED <<registry, rcall, limit, store, added, nadds, initialized,
                   avail, longmem, nreqs, concurrency>>

\* the awaited generate returns its text
GenerateReturns(r, text) ==
    /\ running = 0
    /\ reqs[r].pc = "gen"
    /\ Finish(r, Ended(reqs[r], "ok", text), text)
    /\ UNCHANGED <<registry, rcall, limit, nadds, initialized, avail, nreqs,
                   concurrency>>

GenerateRaises_sorts_in_place(r) ==
    /\ running = 0
    /\ reqs[r].pc = "gen"
    /\ LET f == ExceptProviderError(Ended(reqs[r], "ProviderError", <<>>))
       IN  /\ reqs' = [reqs EXCEPT ![r] = f]
           /\ running' = IF f.pc = "done" THEN 0 ELSE r
    /\ registry' = PySortedByLatency(registry)
    /\ UNCHANGED <<rcall, limit, store, added, nadds, initialized,
                   avail, longmem, nreqs, concurrency>>


\* the awaited generate raises ProviderError
GenerateRaises(r) ==
    /\ running = 0
    /\ reqs[r].pc = "gen"
    /\ LET f == ExceptProviderError(Ended(reqs[r], "ProviderError", <<>>))
       IN  /\ reqs' = [reqs EXCEPT ![r] = f]
           /\ running' = IF f.pc = "done" THEN 0 ELSE r
    /\ UNCHANGED <<registry, rcall, limit, store, added, nadds, initialized,
                   avail, longmem, nreqs, concurrency>>

FallbackStep_exhaustion_unsaved(r) ==
    /\ running = r
    /\ reqs[r].pc = "fallback"
    /\ LET f == reqs[r]
       IN  IF f.idx > Len(f.fallbacks)
           THEN /\ reqs' = [reqs EXCEPT ![r] =
                               [f EXCEPT !.pc = "done", !.cur = None,
                                         !.result = Result(UNAVAILABLE_MESSAGE,
                                                           f.model_cfg.name)]]
                /\ running' = 0
                /\ UNCHANGED <<store, added, longmem, avail>>
           ELSE LET fallback == f.fallbacks[f.idx]
                IN  /\ IF f.force_offline /\ ~fallback.offline_capable
                       THEN /\ reqs' = [reqs EXCEPT ![r] =
                                   [f EXCEPT !.idx = @ + 1,
                                             !.log = Append(@,
                                                LogEntry(fallback, "fallback", "not_offline"))]]
                            /\ running' = r
                       ELSE IF ProviderReady(avail, fallback.provider)
                       THEN /\ reqs' = [reqs EXCEPT ![r] =
                                   [f EXCEPT !.pc = "gen", !.cur = fallback,
                                             !.log = Append(@,
                                                LogEntry(fallback, "fallback", "call"))]]
                            /\ running' = 0
                       ELSE /\ reqs' = [reqs EXCEPT ![r] =
                                   [f EXCEPT !.idx = @ + 1,
                                             !.log = Append(@,
                                                LogEntry(fallback, "fallback", "unavailable"))]]
                            /\ running' = r
                    /\ UNCHANGED <<store, added, longmem, avail>>
    /\ UNCHANGED <<registry, rcall, limit, nadds, initialized, nreqs, concurrency>>

\* one turn of the fallback loop of _call_with_fallback, or its end
FallbackStep(r) ==
    /\ running = r
    /\ reqs[r].pc = "fallback"
    /\ LET f == reqs[r]
       IN  IF f.idx > Len(f.fallbacks)
           THEN /\ Finish(r, f, UNAVAILABLE_MESSAGE)
                /\ UNCHANGED avail
           ELSE LET fallback == f.fallbacks[f.idx]
                IN  /\ IF f.force_offline /\ ~fallback.offline_capable
                       THEN /\ reqs' = [reqs EXCEPT ![r] =
                                   [f EXCEPT !.idx = @ + 1,
                                             !.log = Append(@,
                                                LogEntry(fallback, "fallback", "not_offline"))]]
                            /\ running' = r
                       ELSE IF ProviderReady(avail, fallback.provider)
                       THEN /\ reqs' = [reqs EXCEPT ![r] =
                                   [f EXCEPT !.pc = "gen", !.cur = fallback,
                                             !.log = Append(@,
                                                LogEntry(fallback, "fallback", "call"))]]
                            /\ running' = 0
                       ELSE /\ reqs' = [reqs EXCEPT ![r] =
                                   [f EXCEPT !.idx = @ + 1,
                                             !.log = Append(@,
                                                LogEntry(fallback, "fallback", "unavailable"))]]
                            /\ running' = r
                    /\ UNCHANGED <<store, added, longmem, avail>>
    /\ UNCHANGED <<registry, rcall, limit, nadds, initialized, nreqs, concurrency>>

\* "".join(parts)
RECURSIVE PyJoin(_)
PyJoin(parts) == IF parts = <<>> THEN <<>> ELSE parts[1] \o PyJoin(Tail(parts))

\* str(exc) of the ProviderError a provider's generate_stream raises
StreamErrorText(provider) ==
    IF provider = "groq"
    THEN <<"Groq rate limit reached (30 RPM on free tier). Please wait a moment.">>
    ELSE IF provider = "openrouter"
    THEN <<"OpenRouter streaming error: ...">>
    ELSE <<"Cannot connect to Ollama at ... Is it running?">>

\* the n-th fragment of a provider stream (non-empty: the adapters pass on
\* no empty delta), different from the fragments before it
GenChunk(n) == <<DigitChars[n]>>

\* the generator of process_stream ends: StopAsyncIteration at the consumer
StreamDone(f) ==
    [f EXCEPT !.pc = "done", !.cur = None,
              !.result = Result(PyJoin(f.emitted), None)]

StreamLastYield_silent(f, text) == [f EXCEPT !.pc = "last_yield", !.cur = None]

\* process_stream suspended at a yield whose resumption only returns
StreamLastYield(f, text) ==
    [f EXCEPT !.pc = "last_yield", !.cur = None, !.emitted = Append(@, text)]

\* process_stream from its first __anext__ to its first suspension: context,
\* selection, the availability test, then the first await of generate_stream
StreamBegin(r, text, sid, fo) ==
    /\ initialized
    /\ running = 0
    /\ reqs[r].pc = "idle"
    /\ \A q \in Reqs : reqs[q].pc = "idle" => r <= q
    /\ nreqs < MaxRequests + concurrency - 1
    /\ Cardinality(InFlight) < concurrency
    /\ nreqs' = nreqs + 1
    /\ \E memories \in SearchOutcomes(longmem) :
         LET context == build_context(store, longmem, sid, memories)
             messages == <<Message("system", SYSTEM_PROMPT)>> \o context
             available == get_available_providers(avail)
             sel == select_model(registry, text, fo,
                                 AvailableOrNone(available))
             f == [IdleFrame EXCEPT !.op = "process_stream",
                                    !.user_input = text, !.session_id = sid,
                                    !.force_offline = fo, !.messages = messages,
                                    !.available = available]
         IN  reqs' = [reqs EXCEPT ![r] =
                IF sel.raised # None
                THEN StreamLastYield(f, sel.msg)
                ELSE IF ~ProviderReady(avail, sel.value.provider)
                THEN StreamLastYield(
                        [f EXCEPT !.model_cfg = sel.value,
                                  !.log = Append(@, LogEntry(sel.value, "stream",
                                                             "unavailable"))],
                        UNAVAILABLE_MESSAGE)
                ELSE [f EXCEPT !.pc = "streaming", !.model_cfg = sel.value,
                               !.cur = sel.value,
                               !.log = Append(@, LogEntry(sel.value, "stream",
                                                          "call"))]]
    /\ UNCHANGED <<registry, rcall, limit, store, added, nadds, initialized,
                   avail, longmem, running, concurrency>>

StreamChunk_stores_partial(r) ==
    /\ running = 0
    /\ reqs[r].pc = "streaming"
    /\ Len(reqs[r].full_response) < MaxChunks
    /\ LET chunk == GenChunk(Len(reqs[r].full_response) + 1)
       IN  /\ reqs' = [reqs EXCEPT ![r].full_response = Append(@, chunk),
                                  ![r].emitted = Append(@, chunk)]
           /\ longmem' = SaveLong(longmem, reqs[r].session_id, reqs[r].user_input,
                                  PyJoin(Append(reqs[r].full_response, chunk)))
    /\ UNCHANGED <<registry, rcall, limit, store, added, nadds, initialized,
                   avail, running, nreqs, concurrency>>

\* the provider stream yields a fragment: full_response.append(chunk), yield
StreamChunk(r) ==
    /\ running = 0
    /\ reqs[r].pc = "streaming"
    /\ Len(reqs[r].full_response) < MaxChunks
    /\ LET chunk == GenChunk(Len(reqs[r].full_response) + 1)
       IN  reqs' = [reqs EXCEPT ![r].full_response = Append(@, chunk),
                               ![r].emitted = Append(@, chunk)]
    /\ UNCHANGED <<registry, rcall, limit, store, added, nadds, initialized,
                   avail, longmem, running, nreqs, concurrency>>

\* the provider stream ends: save_interaction, then the generator ends
StreamEnds(r) ==
    /\ running = 0
    /\ reqs[r].pc = "streaming"
    /\ LET f == reqs[r]
           text == PyJoin(f.full_response)
       IN  /\ store' = SaveShort(store, limit, f.session_id, f.user_input, text)
           /\ added' = [added EXCEPT ![f.session_id] =
                           @ \o <<Message("user", f.user_input),
                                  Message("assistant", text)>>]
           /\ longmem' = SaveLong(longmem, f.session_id, f.user_input, text)
           /\ reqs' = [reqs EXCEPT ![r] =
                          StreamDone([Ended(f, "ok", text) EXCEPT
                              !.saved = <<Message("user", f.user_input),
                                          Message("assistant", text)>>,
                              !.stored = IF longmem.available THEN 1 ELSE 0])]
    /\ UNCHANGED <<registry, rcall, limit, nadds, initialized, avail, running,
                   nreqs, concurrency>>

StreamRaises_starts_over(r) ==
    /\ running = 0
    /\ reqs[r].pc = "streaming"
    /\ IF Len(reqs[r].log) < 2
       THEN reqs' = [reqs EXCEPT ![r] =
                        [Ended(reqs[r], "ProviderError", <<>>) EXCEPT
                            !.full_response = <<>>,
                            !.log = Append(@, LogEntry(reqs[r].cur, "stream", "call"))]]
       ELSE reqs' = [reqs EXCEPT ![r] =
                        StreamLastYield(Ended(reqs[r], "ProviderError", <<>>),
                                        StreamErrorText(reqs[r].cur.provider))]
    /\ UNCHANGED <<registry, rcall, limit, store, added, nadds, initialized,
                   avail, longmem, running, nreqs, concurrency>>

\* the provider stream raises ProviderError: yield str(exc), then return
StreamRaises(r) ==
    /\ running = 0
    /\ reqs[r].pc = "streaming"
    /\ reqs' = [reqs EXCEPT ![r] =
                   StreamLastYield(Ended(reqs[r], "ProviderError", <<>>),
                                   StreamErrorText(reqs[r].cur.provider))]
    /\ UNCHANGED <<registry, rcall, limit, store, added, nadds, initialized,
                   avail, longmem, running, nreqs, concurrency>>

StreamReturn_commits(r) ==
    /\ running = 0
    /\ reqs[r].pc = "last_yield"
    /\ LET f == reqs[r]
           text == PyJoin(f.full_response)
       IN  /\ store' = SaveShort(store, limit, f.session_id, f.user_input, text)
           /\ added' = [added EXCEPT ![f.session_id] =
                           @ \o <<Message("user", f.user_input),
                                  Message("assistant", text)>>]
           /\ longmem' = SaveLong(longmem, f.session_id, f.user_input, text)
           /\ reqs' = [reqs EXCEPT ![r] = StreamDone(f)]
    /\ UNCHANGED <<registry, rcall, limit, nadds, initialized, avail, running,
                   nreqs, concurrency>>


\* the consumer resumes the generator after its last yield: it returns
StreamReturn(r) ==
    /\ running = 0
    /\ reqs[r].pc = "last_yield"
    /\ reqs' = [reqs EXCEPT ![r] = StreamDone(reqs[r])]
    /\ UNCHANGED <<registry, rcall, limit, store, added, nadds, initialized,
                   avail, longmem, running, nreqs, concurrency>>

StreamClose_commits(r) ==
    /\ running = 0
    /\ reqs[r].pc \in {"streaming", "last_yield"}
    /\ LET f == reqs[r]
           text == PyJoin(f.full_response)
       IN  /\ store' = SaveShort(store, limit, f.session_id, f.user_input, text)
           /\ added' = [added EXCEPT ![f.session_id] =
                           @ \o <<Message("user", f.user_input),
                                  Message("assistant", text)>>]
           /\ longmem' = SaveLong(longmem, f.session_id, f.user_input, text)
           /\ reqs' = [reqs EXCEPT ![r].pc = "closed", ![r].cur = None]
    /\ UNCHANGED <<registry, rcall, limit, nadds, initialized, avail, running,
                   nreqs, concurrency>>

\* the consumer stops before the sequence has ended: the generator is closed
\* at the yield it is suspended at (GeneratorExit), or the consumer's task is
\* cancelled in the await of the next fragment (CancelledError); neither is a
\* ProviderError, so the generator unwinds
StreamClose(r) ==
    /\ running = 0
    /\ reqs[r].pc \in {"streaming", "last_yield"}
    /\ reqs' = [reqs EXCEPT ![r].pc = "closed", ![r].cur = None]
    /\ UNCHANGED <<registry, rcall, limit, store, added, nadds, initialized,
                   avail, longmem, running, nreqs, concurrency>>

\* the caller takes the result; the slot is free for its next call
Return(r) ==
    /\ reqs[r].pc \in {"done", "closed"}
    /\ reqs' = [reqs EXCEPT ![r] = IdleFrame]
    /\ UNCHANGED <<registry, rcall, limit, store, added, nadds, initialized,
                   avail, longmem, running, nreqs, concurrency>>

\* a registry with ties on latency and a model of a provider that
\* self._providers does not hold
MixedRegistry ==
    << ModelConfig("m1", "groq", 300, 80, FALSE),
       ModelConfig("m2", "ollama", 300, 70, TRUE),
       ModelConfig("m3", "hf", 200, 99, FALSE),
       ModelConfig("m4", "openrouter", 300, 90, FALSE),
       ModelConfig("m5", "ollama", 300, 70, TRUE) >>

OrchRegistries == {<<>>, MixedRegistry}

\* user inputs of the requests: one trivial, one complex
OrchInputs == {W_hi, InputText(<<W_Why>>, 1, <<>>)}

\* texts a provider may return; completion.choices[0].message.content or ""
GenTexts == {<<>>, <<"4","2">>}

\* the orchestrator after __init__, with a config whose short_term_limit is 2
Init ==
    /\ registry = <<>>
    /\ rcall = NoCall
    /\ limit = ShortTermInit(2)
    /\ store = EmptyStore
    /\ added = EmptyStore
    /\ nadds = 0
    /\ initialized = FALSE
    /\ avail = NoProviders
    /\ longmem = LongTermInit(FALSE)
    /\ reqs = [r \in Reqs |-> IdleFrame]
    /\ running = 0
    /\ nreqs = 0
    /\ concurrency = 1

Next ==
    \/ Initialize
    \/ \E reg \in OrchRegistries : SetRouter(reg)
    \/ OllamaChange
    \/ \E r \in Reqs, text \in OrchInputs, sid \in Sessions, fo \in BOOLEAN :
          Begin(r, text, sid, fo)
    \/ \E r \in Reqs : TryPrimary(r)
    \/ \E r \in Reqs, text \in GenTexts : GenerateReturns(r, text)
    \/ \E r \in Reqs : GenerateRaises(r)
    \/ \E r \in Reqs : FallbackStep(r)
    \/ \E r \in Reqs, text \in OrchInputs, sid \in Sessions, fo \in BOOLEAN :
          StreamBegin(r, text, sid, fo)
    \/ \E r \in Reqs : StreamChunk(r)
    \/ \E r \in Reqs : StreamEnds(r)
    \/ \E r \in Reqs : StreamRaises(r)
    \/ \E r \in Reqs : StreamReturn(r)
    \/ \E r \in Reqs : StreamClose(r)
    \/ \E r \in Reqs : Return(r)

Spec == Init /\ [][Next]_vars

(***************************************************************************)
(* Two process_message calls kept in flight at once                        *)
(***************************************************************************)
\* an initialized orchestrator with a router over three models of Groq, the
\* one provider whose credential is set, a long-term store and the default
\* short_term_limit
InitConc ==
    /\ registry = ModelRouterInit(ScenarioARegistry)
    /\ rcall = NoCall
    /\ limit = ShortTermInit(20)
    /\ store = EmptyStore
    /\ added = EmptyStore
    /\ nadds = 0
    /\ initialized = TRUE
    /\ avail = [NoProviders EXCEPT !["groq"] = TRUE]
    /\ longmem = LongTermInit(TRUE)
    /\ reqs = [r \in Reqs |-> IdleFrame]
    /\ running = 0
    /\ nreqs = 0
    /\ concurrency = 2

NextConc ==
    \/ \E r \in Reqs, text \in OrchInputs, sid \in Sessions, fo \in BOOLEAN :
          Begin(r, text, sid, fo)
    \/ \E r \in Reqs : TryPrimary(r)
    \/ \E r \in Reqs, text \in GenTexts : GenerateReturns(r, text)
    \/ \E r \in Reqs : GenerateRaises(r)
    \/ \E r \in Reqs : FallbackStep(r)
    \/ \E r \in Reqs : Return(r)

SpecConc == InitConc /\ [][NextConc]_vars

(***************************************************************************)
(* Calls of both kinds that follow one another on a session                *)
(***************************************************************************)
NextTurns ==
    \/ \E r \in Reqs, text \in OrchInputs : Begin(r, text, "s1", FALSE)
    \/ \E r \in Reqs : TryPrimary(r)
    \/ \E r \in Reqs, text \in GenTexts : GenerateReturns(r, text)
    \/ \E r \in Reqs : GenerateRaises(r)
    \/ \E r \in Reqs : FallbackStep(r)
    \/ \E r \in Reqs, text \in OrchInputs : StreamBegin(r, text, "s1", FALSE)
    \/ \E r \in Reqs : StreamChunk(r)
    \/ \E r \in Reqs : StreamEnds(r)
    \/ \E r \in Reqs : StreamRaises(r)
    \/ \E r \in Reqs : StreamReturn(r)
    \/ \E r \in Reqs : StreamClose(r)
    \/ \E r \in Reqs : Return(r)

SpecTurns == InitConc /\ [][NextTurns]_vars


(***************************************************************************)
(* process_message under a fair scheduler                                  *)
(***************************************************************************)
NextLive ==
    \/ \E r \in Reqs, text \in OrchInputs, sid \in Sessions, fo \in BOOLEAN :
          Begin(r, text, sid, fo)
    \/ \E r \in Reqs : TryPrimary(r)
    \/ \E r \in Reqs, text \in GenTexts : GenerateReturns(r, text)
    \/ \E r \in Reqs : GenerateRaises(r)
    \/ \E r \in Reqs : FallbackStep(r)
    \/ OllamaChange

\* the awaited generate of call r returns or raises
GenerateEnds(r) ==
    \/ \E text \in GenTexts : GenerateReturns(r, text)
    \/ GenerateRaises(r)

\* the event loop goes on with a coroutine that can run, and every awaited
\* generate call ends
Fairness ==
    \A r \in Reqs :
        /\ WF_vars(TryPrimary(r))
        /\ WF_vars(FallbackStep(r))
        /\ WF_vars(GenerateEnds(r))

SpecLive == InitConc /\ [][NextLive]_vars /\ Fairness


(***************************************************************************)
(* providers/: the three adapters called directly                          *)
(***************************************************************************)
\* exception classes that derive from BaseException and not from Exception
BaseExceptionsOnly == {"CancelledError"}

\* what the awaited client of an adapter raises: the Groq SDK its own errors,
\* httpx its transport errors and, from raise_for_status, HTTPStatusError
UpstreamErrors(provider) ==
    IF provider = "groq"
    THEN {"RateLimitError", "APIConnectionError", "APIStatusError", "CancelledError"}
    ELSE {"ConnectError", "ReadTimeout", "HTTPStatusError", "CancelledError"}

\* the bodies a completed request can carry
ResponseBodies(provider) ==
    IF provider = "groq" THEN {"text", "null_content", "no_choices"}
    ELSE IF provider = "openrouter"
    THEN {"text", "null_content", "not_json", "no_choices"}
    ELSE {"text", "null_content", "no_message", "not_json", "not_object"}

\* the items a response stream can carry
StreamItems(provider) ==
    IF provider = "groq" THEN {"delta", "empty", "no_choices"}
    ELSE IF provider = "openrouter"
    THEN {"not_data", "[DONE]", "delta", "empty", "not_json", "no_choices_key",
          "no_choices"}
    ELSE {"blank", "delta", "done", "not_json", "not_object"}

\* a direct call of an adapter: `failures` are the exceptions raised inside
\* it, `out` what generate_stream has yielded, `value` what generate returned
ProviderCall(op, provider) ==
    [op |-> op, provider |-> provider, pc |-> "awaiting", failures |-> <<>>,
     nitems |-> 0, out |-> <<>>, value |-> None, raised |-> None, msg |-> ""]

\* the adapter raises `type` to its caller
Leaves(c, type, msg) == [c EXCEPT !.pc = "raised", !.raised = type, !.msg = msg]

\* if not self._client / if not self._api_key
MissingCredential(c) ==
    Leaves([c EXCEPT !.failures = <<"missing credential">>], "ProviderError",
           IF c.provider = "groq"
           THEN "GROQ_API_KEY is not set. Cannot call Groq API."
           ELSE "OPENROUTER_API_KEY is not set. Cannot call OpenRouter API.")

ExceptClauses_first_only(c, exc) ==
    LET d == [c EXCEPT !.failures = Append(@, exc)]
    IN  IF c.provider = "groq" /\ exc = "RateLimitError"
        THEN Leaves(d, "ProviderError",
                    "Groq rate limit reached (30 RPM on free tier). Please wait a moment.")
        ELSE IF c.provider = "openrouter" /\ exc = "HTTPStatusError"
        THEN Leaves(d, "ProviderError", "OpenRouter API error ...")
        ELSE IF c.provider = "ollama" /\ exc = "ConnectError"
        THEN Leaves(d, "ProviderError", "Cannot connect to Ollama at ... Is it running?")
        ELSE Leaves(d, exc, "")

\* the except clauses around the body of generate and of generate_stream,
\* tried in their order; what is no Exception passes them
ExceptClauses(c, exc) ==
    LET d == [c EXCEPT !.failures = Append(@, exc)]
        streaming == c.op = "generate_stream"
    IN  IF c.provider = "groq"
        THEN IF exc = "RateLimitError"
             THEN Leaves(d, "ProviderError",
                         "Groq rate limit reached (30 RPM on free tier). Please wait a moment.")
             ELSE IF exc \notin BaseExceptionsOnly
             THEN Leaves(d, "ProviderError",
                         IF streaming THEN "Groq streaming error: ..."
                         ELSE "Groq API error: ...")
             ELSE Leaves(d, exc, "")
        ELSE IF c.provider = "openrouter"
        THEN IF exc = "HTTPStatusError"
             THEN Leaves(d, "ProviderError",
                         IF streaming THEN "OpenRouter streaming error ..."
                         ELSE "OpenRouter API error ...")
             ELSE IF exc \notin BaseExceptionsOnly
             THEN Leaves(d, "ProviderError",
                         IF streaming THEN "OpenRouter streaming error: ..."
                         ELSE "OpenRouter error: ...")
             ELSE Leaves(d, exc, "")
        ELSE IF exc = "ConnectError"
             THEN Leaves(d, "ProviderError",
                         "Cannot connect to Ollama at ... Is it running?")
             ELSE IF exc = "HTTPStatusError"
             THEN Leaves(d, "ProviderError",
                         IF streaming THEN "Ollama streaming error ..."
                         ELSE "Ollama API error ...")
             ELSE IF exc \notin BaseExceptionsOnly
             THEN Leaves(d, "ProviderError",
                         IF streaming THEN "Ollama streaming error: ..."
                         ELSE "Ollama error: ...")
             ELSE Leaves(d, exc, "")

\* the exception that reading the text out of a response body raises, or None
BodyError(provider, body) ==
    IF body = "no_choices"
    THEN IF provider = "groq" THEN "IndexError" ELSE "KeyError"
    ELSE IF body = "not_json" THEN "JSONDecodeError"
    ELSE IF body = "not_object" THEN "AttributeError"
    ELSE None

\* what generate returns for a body it can read: `content or ""` at Groq and
\* OpenRouter, .get("message", {}).get("content", "") at Ollama
BodyValue(provider, body) ==
    IF body = "text" THEN <<"4", "2">>
    ELSE IF body = "null_content" /\ provider = "ollama" THEN None
    ELSE <<>>

\* the exceptions the loop of generate_stream catches around one line
InnerCaught(provider) ==
    IF provider = "openrouter" THEN {"JSONDecodeError", "KeyError"}
    ELSE IF provider = "ollama" THEN {"JSONDecodeError"}
    ELSE {}

\* the exception that reading one item of a stream raises, or None
ItemError(provider, item) ==
    IF item = "not_json" THEN "JSONDecodeError"
    ELSE IF item = "no_choices_key" THEN "KeyError"
    ELSE IF item = "no_choices" THEN "IndexError"
    ELSE IF item = "not_object" THEN "AttributeError"
    ELSE None

InitProvider ==
    /\ registry = MODEL_REGISTRY
    /\ rcall = NoCall
    /\ limit = ShortTermInit(20)
    /\ store = EmptyStore
    /\ added = EmptyStore
    /\ nadds = 0
    /\ initialized = FALSE
    /\ avail \in [{"groq", "openrouter", "ollama"} -> BOOLEAN]
    /\ longmem = LongTermInit(FALSE)
    /\ reqs = [r \in Reqs |-> IdleFrame]
    /\ running = 0
    /\ nreqs = 0
    /\ concurrency = 0

\* generate, or the first __anext__ of generate_stream, up to its first await
ProviderBegin(op, provider) ==
    /\ rcall.pc \in {"none", "returned", "raised"}
    /\ rcall' = IF provider # "ollama" /\ ~avail[provider]
                THEN MissingCredential(ProviderCall(op, provider))
                ELSE ProviderCall(op, provider)
    /\ UNCHANGED <<registry, limit, store, added, nadds, initialized, avail,
                   longmem, reqs, running, nreqs, concurrency>>

\* the awaited client raises; an Ollama server that is not running refuses
\* the connection
UpstreamRaises(exc) ==
    /\ rcall.pc = "awaiting"
    /\ exc \in UpstreamErrors(rcall.provider)
    /\ (rcall.provider = "ollama" /\ ~avail["ollama"])
       => exc \in {"ConnectError", "CancelledError"}
    /\ rcall.nitems > 0 => exc # "HTTPStatusError"
    /\ rcall' = ExceptClauses(rcall, exc)
    /\ UNCHANGED <<registry, limit, store, added, nadds, initialized, avail,
                   longmem, reqs, running, nreqs, concurrency>>

\* generate: the request completes and the text is read out of its body
UpstreamResponds(body) ==
    /\ rcall.pc = "awaiting"
    /\ rcall.op = "generate"
    /\ rcall.provider = "ollama" => avail["ollama"]
    /\ body \in ResponseBodies(rcall.provider)
    /\ rcall' = IF BodyError(rcall.provider, body) # None
                THEN ExceptClauses(rcall, BodyError(rcall.provider, body))
                ELSE [rcall EXCEPT !.pc = "returned",
                                   !.value = BodyValue(rcall.provider, body)]
    /\ UNCHANGED <<registry, limit, store, added, nadds, initialized, avail,
                   longmem, reqs, running, nreqs, concurrency>>

\* generate_stream: one more item of the stream is read; a fragment is yielded
\* and the generator resumed
UpstreamItem(item) ==
    /\ rcall.pc = "awaiting"
    /\ rcall.op = "generate_stream"
    /\ rcall.provider = "ollama" => avail["ollama"]
    /\ rcall.nitems < MaxChunks
    /\ item \in StreamItems(rcall.provider)
    /\ LET c == [rcall EXCEPT !.nitems = @ + 1]
           exc == ItemError(c.provider, item)
       IN  rcall' =
              IF exc # None
              THEN IF exc \in InnerCaught(c.provider)
                   THEN [c EXCEPT !.failures = Append(@, exc)]
                   ELSE ExceptClauses(c, exc)
              ELSE IF item = "delta"
              THEN [c EXCEPT !.out = Append(@, GenChunk(c.nitems))]
              ELSE IF item \in {"[DONE]", "done"}
              THEN [c EXCEPT !.pc = "returned"]
              ELSE c
    /\ UNCHANGED <<registry, limit, store, added, nadds, initialized, avail,
                   longmem, reqs, running, nreqs, concurrency>>

\* generate_stream: the stream ends and so does the generator
UpstreamEnds ==
    /\ rcall.pc = "awaiting"
    /\ rcall.op = "generate_stream"
    /\ rcall.provider = "ollama" => avail["ollama"]
    /\ rcall' = [rcall EXCEPT !.pc = "returned"]
    /\ UNCHANGED <<registry, limit, store, added, nadds, initialized, avail,
                   longmem, reqs, running, nreqs, concurrency>>

NextProvider ==
    \/ \E op \in {"generate", "generate_stream"},
          provider \in {"groq", "openrouter", "ollama"} : ProviderBegin(op, provider)
    \/ \E exc \in UpstreamErrors("groq") \cup UpstreamErrors("ollama") :
          UpstreamRaises(exc)
    \/ \E body \in ResponseBodies("openrouter") \cup ResponseBodies("ollama") :
          UpstreamResponds(body)
    \/ \E item \in StreamItems("groq") \cup StreamItems("openrouter")
                   \cup StreamItems("ollama") : UpstreamItem(item)
    \/ UpstreamEnds

SpecProvider == InitProvider /\ [][NextProvider]_vars


(***************************************************************************)
(* Direct calls of the router                                              *)
(***************************************************************************)
memVars == <<limit, store, added, nadds>>
orchVars == <<initialized, avail, longmem, reqs, running, nreqs, concurrency>>

\* the orchestrator, never constructed
NoOrchestrator ==
    /\ initialized = FALSE
    /\ avail = NoProviders
    /\ longmem = LongTermInit(FALSE)
    /\ reqs = [r \in Reqs |-> IdleFrame]
    /\ running = 0
    /\ nreqs = 0
    /\ concurrency = 0

InitRouter ==
    /\ registry \in {ModelRouterInit(r) : r \in RouterRegistries}
    /\ \/ rcall \in [op : {"classify_task"}, user_input : ClassifyInputs,
                     force_offline : {FALSE}, available_providers : {NoList},
                     pc : {"new"}, complexity : {None}, result : {None}]
       \/ rcall \in [op : {"select_model"}, user_input : SelectInputs,
                     force_offline : BOOLEAN, available_providers : AllowedLists,
                     pc : {"new"}, complexity : {None}, result : {None}]
    /\ limit = 1
    /\ store = EmptyStore
    /\ added = EmptyStore
    /\ nadds = 0
    /\ NoOrchestrator

\* a call of classify_task
RouterClassify ==
    /\ rcall.op = "classify_task"
    /\ rcall.pc = "new"
    /\ rcall' = [rcall EXCEPT !.pc = "classified",
                              !.complexity = classify_task(rcall.user_input)]
    /\ UNCHANGED <<registry, memVars, orchVars>>

\* a call of select_model; its local `complexity` is kept with the result
RouterSelect ==
    /\ rcall.op = "select_model"
    /\ rcall.pc = "new"
    /\ rcall' = [rcall EXCEPT !.pc = "selected",
                              !.complexity = classify_task(rcall.user_input),
                              !.result = select_model(registry, rcall.user_input,
                                                      rcall.force_offline,
                                                      rcall.available_providers)]
    /\ UNCHANGED <<registry, memVars, orchVars>>

NextRouter == RouterClassify \/ RouterSelect

SpecRouter == InitRouter /\ [][NextRouter]_vars

(***************************************************************************)
(* Direct calls of the short-term memory                                   *)
(***************************************************************************)
\* the content of the n-th message added to a session since its last clear
ContentOf(n) == <<"m", DigitChars[n]>>

InitMem ==
    /\ registry = MODEL_REGISTRY
    /\ rcall = NoCall
    /\ limit \in {ShortTermInit(l) : l \in 0..MaxLimit}
    /\ store = EmptyStore
    /\ added = EmptyStore
    /\ nadds = 0
    /\ NoOrchestrator

MemAdd(s, role) ==
    /\ nadds < MaxAdds
    /\ LET content == ContentOf(Len(added[s]) + 1)
       IN  /\ store' = ShortTermAdd(store, limit, s, role, content)
           /\ added' = [added EXCEPT ![s] = Append(@, Message(role, content))]
    /\ nadds' = nadds + 1
    /\ UNCHANGED <<registry, rcall, limit, orchVars>>

MemClear(s) ==
    /\ nadds < MaxAdds
    /\ store' = ShortTermClear(store, s)
    /\ added' = [added EXCEPT ![s] = <<>>]
    /\ nadds' = nadds + 1
    /\ UNCHANGED <<registry, rcall, limit, orchVars>>

NextMem ==
    \/ \E s \in Sessions, role \in Roles : MemAdd(s, role)
    \/ \E s \in Sessions : MemClear(s)

SpecMem == InitMem /\ [][NextMem]_vars

(***************************************************************************)
(* Direct calls of the memory manager                                      *)
(***************************************************************************)
\* a call of a MemoryManager method: its arguments, what the long-term search
\* gave it, and what it returned
ManagerCall(op, session_id, user_msg, assistant_msg, memories, result) ==
    [op |-> op, session_id |-> session_id, user_msg |-> user_msg,
     assistant_msg |-> assistant_msg, memories |-> memories, result |-> result]

\* MemoryManager.__init__: chromadb could be set up or not
InitManager ==
    /\ registry = MODEL_REGISTRY
    /\ rcall = NoCall
    /\ limit \in {ShortTermInit(l) : l \in 1..MaxLimit}
    /\ store = EmptyStore
    /\ added = EmptyStore
    /\ nadds = 0
    /\ initialized = FALSE
    /\ avail = NoProviders
    /\ longmem \in {LongTermInit(a) : a \in BOOLEAN}
    /\ reqs = [r \in Reqs |-> IdleFrame]
    /\ running = 0
    /\ nreqs = 0
    /\ concurrency = 0

\* MemoryManager.add
ManagerAdd(s, role) ==
    /\ nadds < MaxAdds
    /\ LET content == ContentOf(Len(added[s]) + 1)
       IN  /\ store' = ShortTermAdd(store, limit, s, role, content)
           /\ added' = [added EXCEPT ![s] = Append(@, Message(role, content))]
           /\ rcall' = ManagerCall("add", s, content, <<>>, <<>>, <<>>)
    /\ nadds' = nadds + 1
    /\ UNCHANGED <<registry, limit, initialized, avail, longmem, reqs, running,
                   nreqs, concurrency>>

\* MemoryManager.save_interaction
ManagerSave(s) ==
    /\ nadds + 2 <= MaxAdds
    /\ LET user_msg == ContentOf(Len(added[s]) + 1)
           assistant_msg == ContentOf(Len(added[s]) + 2)
       IN  /\ store' = SaveShort(store, limit, s, user_msg, assistant_msg)
           /\ added' = [added EXCEPT ![s] =
                           @ \o <<Message("user", user_msg),
                                  Message("assistant", assistant_msg)>>]
           /\ longmem' = SaveLong(longmem, s, user_msg, assistant_msg)
           /\ rcall' = ManagerCall("save_interaction", s, user_msg, assistant_msg,
                                   <<>>, <<>>)
    /\ nadds' = nadds + 2
    /\ UNCHANGED <<registry, limit, initialized, avail, reqs, running, nreqs,
                   concurrency>>

\* MemoryManager.short.clear
ManagerClear(s) ==
    /\ nadds < MaxAdds
    /\ store' = ShortTermClear(store, s)
    /\ added' = [added EXCEPT ![s] = <<>>]
    /\ rcall' = ManagerCall("clear", s, <<>>, <<>>, <<>>, <<>>)
    /\ nadds' = nadds + 1
    /\ UNCHANGED <<registry, limit, initialized, avail, longmem, reqs, running,
                   nreqs, concurrency>>


\* MemoryManager.build_context
ManagerBuildContext(s) ==
    /\ \E memories \in SearchOutcomes(longmem) :
          rcall' = ManagerCall("build_context", s, <<>>, <<>>, memories,
                               build_context(store, longmem, s, memories))
    /\ UNCHANGED <<registry, memVars, orchVars>>

NextManager ==
    \/ \E s \in Sessions, role \in {"system", "user"} : ManagerAdd(s, role)
    \/ \E s \in Sessions : ManagerSave(s)
    \/ \E s \in Sessions : ManagerClear(s)
    \/ \E s \in Sessions : ManagerBuildContext(s)

SpecManager == InitManager /\ [][NextManager]_vars

(***************************************************************************)
(* Properties of the router (checked under SpecRouter)                     *)
(***************************************************************************)
SeqRange(s) == {s[k] : k \in 1..Len(s)}

\* positions of the registry that pass the provider filter and the offline filter
EligibleIdx ==
    {i \in 1..Len(registry) :
        /\ rcall.available_providers # NoList
              => registry[i].provider \in SeqRange(rcall.available_providers[1])
        /\ rcall.force_offline => registry[i].offline_capable}

HiText == <<"h","i">>

\* C5: for an input classified trivial or simple and a non-empty eligible set,
\* select_model returns the eligible model of minimum latency, the earliest in
\* registry order among those tied; the registry of Scenario A with input "hi"
\* gives the 300 ms model.
C5_FastestEarliest ==
    (rcall.pc = "selected" /\ rcall.complexity \in {"trivial", "simple"}
        /\ EligibleIdx # {})
    => /\ rcall.result.raised = None
       /\ \E i \in EligibleIdx :
            /\ rcall.result.value = registry[i]
            /\ \A j \in EligibleIdx :
                 /\ registry[i].latency_ms <= registry[j].latency_ms
                 /\ registry[j].latency_ms = registry[i].latency_ms => i <= j
       /\ (registry = ScenarioARegistry /\ rcall.user_input = HiText)
            => rcall.result.value.latency_ms = 300

\* a selection for a trivial input among three eligible models tied on latency
C5_Witness ==
    /\ rcall.pc = "selected"
    /\ rcall.complexity = "trivial"
    /\ registry = TieRegistry
    /\ Cardinality({i \in EligibleIdx : registry[i].latency_ms = 300}) = 3
    /\ rcall.result.raised = None
    /\ rcall.result.value.name = "t2"

\* C6: for an input classified moderate or complex and a non-empty eligible
\* set, select_model returns the eligible model of maximum quality score, the
\* earliest in registry order among those tied.
C6_BestEarliest ==
    (rcall.pc = "selected" /\ rcall.complexity \in {"moderate", "complex"}
        /\ EligibleIdx # {})
    => /\ rcall.result.raised = None
       /\ \E i \in EligibleIdx :
            /\ rcall.result.value = registry[i]
            /\ \A j \in EligibleIdx :
                 /\ registry[i].quality_score >= registry[j].quality_score
                 /\ registry[j].quality_score = registry[i].quality_score => i <= j

\* a selection for a moderate input among three eligible models tied on quality
C6_Witness ==
    /\ rcall.pc = "selected"
    /\ rcall.complexity = "moderate"
    /\ registry = TieRegistry
    /\ Cardinality({i \in EligibleIdx : registry[i].quality_score = 90}) = 3
    /\ rcall.result.raised = None
    /\ rcall.result.value.name = "t1"

NoneOfProviders ==
    /\ rcall.available_providers # NoList
    /\ \A i \in 1..Len(registry) :
          registry[i].provider \notin SeqRange(rcall.available_providers[1])

NoneOffline ==
    /\ rcall.force_offline
    /\ \A i \in 1..Len(registry) :
          (rcall.available_providers # NoList
              => registry[i].provider \in SeqRange(rcall.available_providers[1]))
          => ~registry[i].offline_capable

\* C7: select_model fails closed, stage by stage: an allowed-provider list that
\* no descriptor belongs to gives the 'providers' error even under force_offline;
\* otherwise force_offline with no offline-capable descriptor left gives the
\* 'offline' error; no model is returned in either case.
C7_FailsClosed ==
    rcall.pc = "selected"
    => /\ NoneOfProviders
            => rcall.result =
                  RuntimeError(NoProvidersMsg(rcall.available_providers[1]))
       /\ (~NoneOfProviders /\ NoneOffline)
            => rcall.result = RuntimeError(NoOfflineMsg)
       /\ (NoneOfProviders \/ NoneOffline) => rcall.result.raised # None

\* both stages would fail, and the provider stage is the one reported
C7_Witness ==
    /\ rcall.pc = "selected"
    /\ rcall.force_offline
    /\ NoneOfProviders
    /\ \A i \in 1..Len(registry) : ~registry[i].offline_capable
    /\ rcall.result = RuntimeError(NoProvidersMsg(rcall.available_providers[1]))

\* the facts classify_task decides on
C8_Text == StrStrip(StrLower(rcall.user_input))
C8_Tokens == SplitLen(C8_Text)
C8_HasTrivial == \E kw \in TRIVIAL_KEYWORDS : StrContains(kw, C8_Text)
C8_HasComplex == \E kw \in COMPLEX_KEYWORDS : StrContains(kw, C8_Text)

\* C8: classify_task gives trivial exactly for at most 3 tokens with a trivial
\* keyword, simple for a trivial keyword otherwise, else complex for a complex
\* keyword or more than 20 tokens, else moderate for more than 8 tokens, else
\* simple; so a text containing a trivial keyword is never moderate or complex.
C8_Precedence ==
    rcall.pc = "classified"
    => LET n == C8_Tokens
           t == C8_HasTrivial
           c == C8_HasComplex
           tier == rcall.complexity
       IN  /\ tier = "trivial" <=> (n <= 3 /\ t)
           /\ tier = "simple" <=> ((t /\ n > 3) \/ (~t /\ ~c /\ n <= 8))
           /\ tier = "complex" <=> (~t /\ (c \/ n > 20))
           /\ tier = "moderate" <=> (~t /\ ~c /\ n > 8 /\ n <= 20)
           /\ t => tier \notin {"moderate", "complex"}

\* a text of more than 20 tokens holding a trivial and a complex keyword
C8_Witness ==
    /\ rcall.pc = "classified"
    /\ C8_Tokens > 20
    /\ C8_HasTrivial
    /\ C8_HasComplex
    /\ rcall.complexity = "simple"

(***************************************************************************)
(* Properties of the short-term memory (checked under SpecMem)             *)
(***************************************************************************)
SystemCount(buf) == Len(SelectSeq(buf, IsSystem))

\* C9: after every add, a session's buffer holds at most `limit` messages,
\* unless its system messages alone exceed the limit.
C9_Bounded ==
    \A s \in Sessions :
        Len(store[s]) <= limit \/ SystemCount(store[s]) > limit

\* an add that trimmed a buffer holding a pinned system message
C9_Witness ==
    \E s \in Sessions :
        /\ Len(added[s]) > limit
        /\ SystemCount(store[s]) = 1
        /\ Len(store[s]) = limit
        /\ limit >= 2

\* C10: without a clear, every system message added to a session stays in its
\* buffer, once and in the order added.
C10_SystemPinned ==
    \A s \in Sessions :
        SelectSeq(store[s], IsSystem) = SelectSeq(added[s], IsSystem)

\* two system messages survive a trim that evicted other messages
C10_Witness ==
    \E s \in Sessions :
        /\ Len(store[s]) < Len(added[s])
        /\ SystemCount(added[s]) = 2
        /\ added[s][1].role # "system"
        /\ SystemCount(store[s]) = 2

\* the n most recent of the non-system messages of a history (none for n <= 0)
KeptOf(a, n) ==
    LET ns == SelectSeq(a, NotSystem)
    IN  IF n <= 0 THEN <<>>
        ELSE IF n >= Len(ns) THEN ns
        ELSE [k \in 1..n |-> ns[Len(ns) - n + k]]

\* pinned-then-kept: the system messages of a history in the order added, then
\* its most recent (limit - pinned_count) non-system messages in the order added
PinnedThenKept(a) ==
    SelectSeq(a, IsSystem) \o KeptOf(a, limit - SystemCount(a))

\* C11 as stated: after every add, the buffer of the session is pinned-then-kept
\* over the messages added to it.
C11_AlwaysRegrouped ==
    \A s \in Sessions : store[s] = PinnedThenKept(added[s])

\* C11, amended: after every add, the buffer holds the messages added to the
\* session in the order added as long as they are at most `limit`, and is
\* pinned-then-kept over them once more than `limit` were added.
C11_RegroupedOnOverflow ==
    \A s \in Sessions :
        store[s] = IF Len(added[s]) <= limit THEN added[s]
                   ELSE PinnedThenKept(added[s])

\* a system message added after two others was moved to the front by the
\* trim of a later add, and the older of the two others was evicted
C11_Witness ==
    \E s \in Sessions :
        /\ limit = 3
        /\ Len(added[s]) = 4
        /\ added[s][1].role # "system" /\ added[s][2].role # "system"
        /\ added[s][3].role = "system" /\ added[s][4].role # "system"
        /\ store[s] = <<added[s][3], added[s][2], added[s][4]>>

\* C12: with p < limit system messages added first and then at least
\* limit - p non-system messages, the buffer is the p system messages followed
\* by exactly the last limit - p non-system messages; with limit 2, one system
\* message and then a user and an assistant message, the buffer is the system
\* message and the assistant message.
C12_SystemFirst ==
    \A s \in Sessions :
        LET a == added[s]
            p == SystemCount(a)
            n == Len(a) - p
        IN  (/\ p < limit
             /\ n >= limit - p
             /\ \A k \in 1..p : a[k].role = "system")
            => /\ Len(store[s]) = limit
               /\ \A k \in 1..p : store[s][k] = a[k]
               /\ \A k \in 1..(limit - p) :
                     store[s][p + k] = a[Len(a) - (limit - p) + k]
               /\ (limit = 2 /\ p = 1 /\ n = 2)
                    => store[s] = <<a[1], a[3]>>

\* Scenario D: limit 2, a system message, then a user and an assistant message
C12_Witness ==
    \E s \in Sessions :
        /\ limit = 2
        /\ Len(added[s]) = 3
        /\ added[s][1].role = "system"
        /\ added[s][2].role = "user"
        /\ added[s][3].role = "assistant"
        /\ store[s] = <<added[s][1], added[s][3]>>

(***************************************************************************)
(* Properties of the memory manager (checked under SpecManager)            *)
(***************************************************************************)
\* C13: build_context returns the short-term messages of the session in buffer
\* order, preceded by exactly one synthetic system message when the long-term
\* store is available and the search gave at least one result, and by nothing
\* when the store is unavailable or the search gave no result.
C13_OneSummaryOrNone ==
    rcall.op = "build_context"
    => LET short == store[rcall.session_id]
           out == rcall.result
       IN  IF longmem.available /\ rcall.memories # <<>>
           THEN /\ Len(out) = Len(short) + 1
                /\ out[1].role = "system"
                /\ out[1] \notin SeqRange(short)
                /\ \A k \in 1..Len(short) : out[k + 1] = short[k]
           ELSE out = short

\* a context built from two search results in front of a buffer that already
\* holds a system message
C13_Witness ==
    /\ rcall.op = "build_context"
    /\ Len(rcall.memories) = 2
    /\ Len(store[rcall.session_id]) >= 2
    /\ store[rcall.session_id][1].role = "system"
    /\ Len(rcall.result) = Len(store[rcall.session_id]) + 1

\* the step is a call of save_interaction
SaveStep == rcall'.op = "save_interaction" /\ nadds' = nadds + 2

\* the short-term half of C14: the user turn and then the assistant turn are the
\* last messages added to the session, and the buffer ends with as many of them
\* as the trim leaves room for beside the pinned system messages
SavedShort ==
    LET s == rcall'.session_id
        u == Message("user", rcall'.user_msg)
        a == Message("assistant", rcall'.assistant_msg)
        room == limit - SystemCount(store[s])
        buf == store'[s]
    IN  /\ added'[s] = added[s] \o <<u, a>>
        /\ \A t \in Sessions \ {s} : store'[t] = store[t]
        /\ SelectSeq(buf, IsSystem) = SelectSeq(store[s], IsSystem)
        /\ room >= 1 => buf[Len(buf)] = a
        /\ room >= 2 => buf[Len(buf) - 1] = u
        /\ room <= 1 => u \notin SeqRange(buf)
        /\ room <= 0 => a \notin SeqRange(buf)

\* the record save_interaction stores: the user turn and the assistant turn,
\* each under its role, joined by a newline
SavedRecord ==
    [text |-> <<"User: ">> \o rcall'.user_msg
                 \o <<"\nAssistant: ">> \o rcall'.assistant_msg,
     metadata |-> [session_id |-> rcall'.session_id]]

\* C14 as stated: save_interaction adds both turns to the short-term memory of
\* the session and appends exactly one record to long-term memory.
C14_AlwaysOneRecord ==
    [][SaveStep => /\ SavedShort
                   /\ longmem'.docs = Append(longmem.docs, SavedRecord)]_vars

\* C14, amended: save_interaction adds the user turn and then the assistant turn
\* to the short-term memory of the session (subject to trimming) and, when the
\* long-term store is available, appends exactly one record tagged with the
\* session key whose text is the user turn followed by the assistant turn; when
\* the store is unavailable it writes no record.
C14_OneRecordIfAvailable ==
    [][SaveStep => /\ SavedShort
                   /\ longmem'.available = longmem.available
                   /\ longmem.available
                        => longmem'.docs = Append(longmem.docs, SavedRecord)
                   /\ ~longmem.available => longmem'.docs = longmem.docs]_vars

\* a second save_interaction of a session, trimmed, with the store available
C14_Witness ==
    /\ rcall.op = "save_interaction"
    /\ longmem.available
    /\ Len(longmem.docs) = 2
    /\ longmem.docs[2].metadata.session_id = rcall.session_id
    /\ longmem.docs[2].text = <<"User: ">> \o rcall.user_msg
                                 \o <<"\nAssistant: ">> \o rcall.assistant_msg
    /\ limit = 2
    /\ Len(added[rcall.session_id]) = 4
    /\ store[rcall.session_id] = SubSeq(added[rcall.session_id], 3, 4)

(***************************************************************************)
(* Properties of process_message (checked under Spec)                      *)
(***************************************************************************)
\* the entries of a log that are generate calls
Calls(f) == SelectSeq(f.log, LAMBDA e : e.kind = "call")

\* the entries of a log written by the fallback loop
FallbackLog(f) == SelectSeq(f.log, LAMBDA e : e.phase = "fallback")

\* C1: process_message ends by returning a text, never by raising; when
\* routing gave a model and no generate call succeeded (all failed, or none was
\* made), the response is the unavailability message.
C1_AlwaysText ==
    \A r \in Reqs :
        reqs[r].pc = "done"
        => /\ reqs[r].result.raised = None
           /\ reqs[r].result.response \in Seq(STRING)
           /\ (reqs[r].phase # None
                 /\ \A k \in 1..Len(reqs[r].log) : reqs[r].log[k].outcome # "ok")
              => reqs[r].result.response = UNAVAILABLE_MESSAGE

\* the primary call and a fallback call both failed, and the call returned
C1_Witness ==
    \E r \in Reqs :
        /\ reqs[r].pc = "done"
        /\ Len(Calls(reqs[r])) >= 2
        /\ \A k \in 1..Len(reqs[r].log) : reqs[r].log[k].outcome # "ok"
        /\ reqs[r].result.response = UNAVAILABLE_MESSAGE

\* position of a model in the registry
RegIdx(m) == CHOOSE i \in 1..Len(registry) : registry[i] = m

\* m comes before n in ascending latency, registry order among equals
Before(m, n) ==
    \/ m.latency_ms < n.latency_ms
    \/ m.latency_ms = n.latency_ms /\ RegIdx(m) < RegIdx(n)

\* C2: the fallback loop runs only after the primary attempt failed or was
\* skipped as unavailable; it goes through the registry models other than the
\* selected one in ascending latency, registry order among equals, passing over
\* none; it skips a model that is not offline-capable under force_offline and
\* one whose provider is not available, and calls generate on the others.
C2_FallbackOrder ==
    \A r \in Reqs :
        LET f == reqs[r]
            fb == FallbackLog(f)
            others == {registry[i] : i \in 1..Len(registry)} \ {f.model_cfg}
        IN  fb # <<>>
            => /\ f.log[1].phase = "primary"
               /\ \/ f.log[1].kind = "unavailable" /\ ~f.log[1].ready
                  \/ f.log[1].kind = "call" /\ f.log[1].outcome = "ProviderError"
               /\ \A k \in 2..Len(f.log) : f.log[k].phase = "fallback"
               /\ \A k \in 1..Len(fb) :
                    /\ fb[k].model \in others
                    /\ \A j \in 1..(k - 1) : Before(fb[j].model, fb[k].model)
                    /\ \A m \in others :
                          Before(m, fb[k].model)
                          => \E j \in 1..(k - 1) : fb[j].model = m
                    /\ fb[k].kind = "not_offline"
                          <=> (f.force_offline /\ ~fb[k].model.offline_capable)
                    /\ fb[k].kind = "unavailable"
                          <=> (~(f.force_offline /\ ~fb[k].model.offline_capable)
                                 /\ ~fb[k].ready)
                    /\ fb[k].kind = "call"
                          <=> (~(f.force_offline /\ ~fb[k].model.offline_capable)
                                 /\ fb[k].ready)
               /\ (f.pc = "done" /\ \A k \in 1..Len(f.log) : f.log[k].outcome # "ok")
                    => {fb[k].model : k \in 1..Len(fb)} = others

\* after a failed primary call on m1, the fallback loop met a model of an
\* unknown provider, then three models tied on latency in registry order
C2_Witness ==
    \E r \in Reqs :
        /\ reqs[r].pc = "done"
        /\ registry = MixedRegistry
        /\ reqs[r].phase = "fallback"
        /\ reqs[r].model_cfg.name = "m1"
        /\ [k \in 1..Len(FallbackLog(reqs[r])) |-> FallbackLog(reqs[r])[k].model.name]
              = <<"m3", "m2", "m4", "m5">>
        /\ [k \in 1..Len(FallbackLog(reqs[r])) |-> FallbackLog(reqs[r])[k].kind]
              = <<"unavailable", "call", "unavailable", "call">>

\* C3: within a request, a generate call that succeeded is the last one made,
\* and the response returned is the text of that call.
C3_StopAtFirstSuccess ==
    \A r \in Reqs :
        \A k \in 1..Len(reqs[r].log) :
            reqs[r].log[k].outcome = "ok"
            => /\ k = Len(reqs[r].log)
               /\ reqs[r].pc = "done"
               /\ reqs[r].result.response = reqs[r].log[k].text

\* a fallback call succeeded after the primary call failed, with models left
C3_Witness ==
    \E r \in Reqs :
        /\ reqs[r].pc = "done"
        /\ Len(Calls(reqs[r])) = 2
        /\ reqs[r].log[Len(reqs[r].log)].outcome = "ok"
        /\ reqs[r].idx < Len(reqs[r].fallbacks)
        /\ reqs[r].result.response = <<"4", "2">>

\* C4: under force_offline, the selected model and every model generate is
\* called on are offline-capable.
C4_OfflineOnly ==
    \A r \in Reqs :
        (reqs[r].force_offline /\ reqs[r].phase # None)
        => /\ reqs[r].model_cfg.offline_capable
           /\ \A k \in 1..Len(reqs[r].log) :
                reqs[r].log[k].kind = "call"
                => reqs[r].log[k].model.offline_capable

\* under force_offline the fallback loop passed over an online-only model and
\* then called an offline-capable one
C4_Witness ==
    \E r \in Reqs :
        /\ reqs[r].force_offline
        /\ Len(Calls(reqs[r])) = 2
        /\ \E k \in 1..Len(reqs[r].log) : reqs[r].log[k].kind = "not_offline"

(***************************************************************************)
(* Properties of process_stream and of the memory writes (under Spec)      *)
(***************************************************************************)
\* the long-term record of one exchange
ExchangeRecord(session_id, user_msg, assistant_msg) ==
    [text |-> <<"User: ">> \o user_msg \o <<"\nAssistant: ">> \o assistant_msg,
     metadata |-> [session_id |-> session_id]]

\* C15: a long-term record is written only as the record of a finished turn: in
\* the step that ends a process_message call with its final response, or in
\* the step in which a process_stream call ends after its last fragment; the
\* record holds the whole response, and a call that has written its record
\* emits no fragment afterwards.
C15_WrittenAfterTurn ==
    [][/\ longmem'.docs # longmem.docs
          => \E r \in Reqs :
                /\ reqs[r].pc \in {"gen", "fallback", "streaming"}
                /\ reqs'[r].pc = "done"
                /\ reqs'[r].result.raised = None
                /\ reqs'[r].emitted = reqs[r].emitted
                /\ reqs[r].op = "process_stream"
                     => reqs'[r].result.response = PyJoin(reqs[r].emitted)
                /\ longmem'.docs =
                     Append(longmem.docs,
                            ExchangeRecord(reqs[r].session_id, reqs[r].user_input,
                                           reqs'[r].result.response))
       /\ \A r \in Reqs : reqs[r].stored > 0 => reqs'[r].emitted \in {reqs[r].emitted, <<>>}
      ]_vars

\* a stream of two fragments has ended and its record holds both
C15_Witness ==
    \E r \in Reqs :
        /\ reqs[r].op = "process_stream"
        /\ reqs[r].pc = "done"
        /\ Len(reqs[r].emitted) = 2
        /\ reqs[r].stored = 1
        /\ longmem.docs # <<>>
        /\ longmem.docs[Len(longmem.docs)] =
              ExchangeRecord(reqs[r].session_id, reqs[r].user_input,
                             PyJoin(reqs[r].emitted))

\* C16: when the consumer of process_stream stops before the sequence has
\* ended, the step that closes the generator writes neither short-term nor
\* long-term memory, the call has written nothing before it, and it emits and
\* writes nothing after it.
C16_NoCommitOnClose ==
    [][\A r \in Reqs :
          /\ (reqs[r].pc # "closed" /\ reqs'[r].pc = "closed")
               => /\ store' = store
                  /\ longmem' = longmem
                  /\ reqs'[r].emitted = reqs[r].emitted
                  /\ reqs'[r].saved = <<>>
                  /\ reqs'[r].stored = 0
          /\ reqs[r].pc = "closed" => reqs'[r] \in {reqs[r], IdleFrame}
      ]_vars

\* the consumer stopped after the first fragment; the session has no message
\* and the long-term store no record
C16_Witness ==
    \E r \in Reqs :
        /\ reqs[r].pc = "closed"
        /\ reqs[r].emitted = <<GenChunk(1)>>
        /\ store[reqs[r].session_id] = <<>>
        /\ longmem.available
        /\ longmem.docs = <<>>

\* C17: in process_stream, a provider failure after at least one fragment gives
\* one more chunk, the text of the error, and then the end of the sequence; the
\* selected model is the only one attempted and every fragment was emitted once.
C17_FailureIsTerminal ==
    \A r \in Reqs :
        LET f == reqs[r]
        IN  (/\ f.op = "process_stream"
             /\ Len(f.full_response) >= 1
             /\ f.log[1].outcome = "ProviderError")
            => /\ f.pc \in {"last_yield", "done", "closed"}
               /\ Len(f.log) = 1
               /\ f.log[1].model = f.model_cfg
               /\ f.emitted = Append(f.full_response,
                                     StreamErrorText(f.model_cfg.provider))
               /\ \A i, j \in 1..Len(f.emitted) : i # j => f.emitted[i] # f.emitted[j]
               /\ f.pc = "done" => f.result = Result(PyJoin(f.emitted), None)

\* a stream failed after two fragments and the sequence has ended
C17_Witness ==
    \E r \in Reqs :
        /\ reqs[r].op = "process_stream"
        /\ reqs[r].pc = "done"
        /\ Len(reqs[r].full_response) = 2
        /\ reqs[r].log[1].outcome = "ProviderError"
        /\ Len(reqs[r].emitted) = 3

\* the registry models other than the selected one that stay eligible whatever
\* the Ollama probe says: the offline constraint allows them and their provider
\* is available through its credential
StableEligible(f) ==
    {i \in 1..Len(registry) :
        /\ registry[i] # f.model_cfg
        /\ registry[i].provider \in {"groq", "openrouter"}
        /\ avail[registry[i].provider]
        /\ f.force_offline => registry[i].offline_capable}

\* C18: in process_stream, when the selected model's provider is unavailable or
\* fails before any fragment and an eligible fallback model remains, another
\* model is attempted; the unavailability message is produced only when no
\* eligible model remains.
C18_StreamFallsBack ==
    \A r \in Reqs :
        LET f == reqs[r]
        IN  (/\ f.op = "process_stream"
             /\ f.pc \in {"last_yield", "done"}
             /\ f.log # <<>>
             /\ f.full_response = <<>>
             /\ f.log[1].outcome # "ok"
             /\ StableEligible(f) # {})
            => /\ Len(f.log) >= 2
               /\ UNAVAILABLE_MESSAGE \notin SeqRange(f.emitted)

\* the messages of the errors select_model raises in the orchestrator
RoutingErrors ==
    {NoOfflineMsg} \cup
    {NoProvidersMsg(get_available_providers(av)) :
        av \in [{"groq", "openrouter", "ollama"} -> BOOLEAN]}

\* C19: when select_model raises in process_message, the call returns the
\* message of the error as the response, with model_used "none", makes no
\* generate call, and the message is the last one of the session's buffer, as
\* an assistant message.
C19_RoutingFailureRecorded ==
    \A r \in Reqs :
        LET f == reqs[r]
        IN  (f.op = "process_message" /\ f.pc = "done" /\ f.phase = None)
            => /\ f.result.raised = None
               /\ f.result.response \in RoutingErrors
               /\ f.result.model_used = "none"
               /\ f.log = <<>>
               /\ store[f.session_id] # <<>>
               /\ store[f.session_id][Len(store[f.session_id])]
                     = Message("assistant", f.result.response)
               /\ f.stored = 0

\* force_offline with no offline-capable model of an available provider
C19_Witness ==
    \E r \in Reqs :
        /\ reqs[r].op = "process_message"
        /\ reqs[r].pc = "done"
        /\ reqs[r].force_offline
        /\ reqs[r].result = Result(NoOfflineMsg, "none")
        /\ store[reqs[r].session_id] = <<Message("assistant", NoOfflineMsg)>>

\* C20: when select_model raises in process_stream, the sequence is the message
\* of the error, it ends without raising, and the message is recorded in the
\* session's buffer as an assistant message.
C20_StreamRoutingFailureRecorded ==
    \A r \in Reqs :
        LET f == reqs[r]
        IN  (f.op = "process_stream" /\ f.pc = "done" /\ f.log = <<>>)
            => /\ f.result.raised = None
               /\ Len(f.emitted) = 1
               /\ f.emitted[1] \in RoutingErrors
               /\ Message("assistant", f.emitted[1]) \in SeqRange(store[f.session_id])

\* C21 as stated: a process_stream call that has ended raised nothing and has
\* yielded at least one fragment.
C21_AlwaysAFragment ==
    \A r \in Reqs :
        (reqs[r].op = "process_stream" /\ reqs[r].pc = "done")
        => /\ reqs[r].result.raised = None
           /\ Len(reqs[r].emitted) >= 1

\* C21, amended: a process_stream call that has ended raised nothing and every
\* fragment it yielded is a text; it has yielded at least one fragment unless
\* the provider stream ended normally without a fragment, and then it has
\* yielded none and the turn is committed with the empty text.
C21_AFragmentUnlessEmptyStream ==
    \A r \in Reqs :
        LET f == reqs[r]
            empty_stream == /\ f.log # <<>>
                            /\ f.log[Len(f.log)].outcome = "ok"
                            /\ f.full_response = <<>>
        IN  (f.op = "process_stream" /\ f.pc = "done")
            => /\ f.result.raised = None
               /\ \A k \in 1..Len(f.emitted) : f.emitted[k] \in Seq(STRING)
               /\ f.result.response = PyJoin(f.emitted)
               /\ empty_stream => /\ f.emitted = <<>>
                                  /\ f.saved = <<Message("user", f.user_input),
                                                 Message("assistant", <<>>)>>
               /\ ~empty_stream => Len(f.emitted) >= 1

\* a provider stream failed before its first fragment: the one fragment of the
\* sequence is the text of the error
C21_Witness ==
    \E r \in Reqs :
        /\ reqs[r].op = "process_stream"
        /\ reqs[r].pc = "done"
        /\ reqs[r].log # <<>>
        /\ reqs[r].log[1].outcome = "ProviderError"
        /\ reqs[r].full_response = <<>>
        /\ Len(reqs[r].emitted) = 1

(***************************************************************************)
(* Properties of concurrent calls (checked under SpecConc)                 *)
(***************************************************************************)
\* the last n elements of a sequence
LastN(s, n) == IF Len(s) <= n THEN s ELSE [k \in 1..n |-> s[Len(s) - n + k]]

\* the step ends the generation of call r and, with it, the call
Completes(r) == reqs[r].pc \in {"gen", "fallback"} /\ reqs'[r].pc = "done"

\* the step is a call r that ends at the failure of its routing
FailsRouting(r) == reqs[r].pc = "idle" /\ reqs'[r].pc = "done"

\* C22: with process_message calls interleaved at their provider awaits, the
\* step in which the generation of a call completes puts the user message and
\* the assistant message of that call, adjacent and in that order, behind what
\* the session buffer holds at that moment (less what the trim evicts from its
\* front) and leaves the other sessions alone; no other step of a call that
\* passed routing touches a buffer.
C22_PairsInCompletionOrder ==
    [][/\ \A r \in Reqs :
            Completes(r)
            => LET s == reqs[r].session_id
                   pair == <<Message("user", reqs[r].user_input),
                             Message("assistant", reqs'[r].result.response)>>
               IN  /\ store'[s] = LastN(store[s] \o pair, limit)
                   /\ \A t \in Sessions \ {s} : store'[t] = store[t]
       /\ (\A r \in Reqs : ~Completes(r) /\ ~FailsRouting(r)) => store' = store
      ]_vars

\* two calls of one session with different inputs: the call begun second
\* completed first, and the buffer holds its pair in front of the other's
C22_Witness ==
    /\ reqs[1].pc = "done" /\ reqs[2].pc = "done"
    /\ reqs[1].phase # None /\ reqs[2].phase # None
    /\ reqs[1].session_id = reqs[2].session_id
    /\ reqs[1].user_input # reqs[2].user_input
    /\ reqs[1].result.response # reqs[2].result.response
    /\ store[reqs[1].session_id] =
          <<Message("user", reqs[2].user_input),
            Message("assistant", reqs[2].result.response),
            Message("user", reqs[1].user_input),
            Message("assistant", reqs[1].result.response)>>

(***************************************************************************)
(* Properties of the attempts of one request (checked under Spec)          *)
(***************************************************************************)
\* C23: the generate calls of one process_message request come one after the
\* other: a call still in flight is the last thing the request has done and the request is
\* suspended at it, every call that a later call of the request follows has
\* raised ProviderError, and nothing follows a call that returned.
C23_SequentialAttempts ==
    \A r \in Reqs :
        LET f == reqs[r]
        IN  \A i \in 1..Len(f.log) :
                (f.op = "process_message" /\ f.log[i].kind = "call")
                => /\ f.log[i].outcome = None => i = Len(f.log) /\ f.pc = "gen"
                   /\ f.log[i].outcome = "ok" => i = Len(f.log)
                   /\ \A j \in (i + 1)..Len(f.log) :
                         f.log[j].kind = "call"
                         => f.log[i].outcome = "ProviderError"

\* a request whose second generate call is in flight after the first failed
C23_Witness ==
    \E r \in Reqs :
        LET f == reqs[r]
        IN  /\ f.pc = "gen"
            /\ Len(f.log) >= 2
            /\ f.log[1].kind = "call" /\ f.log[1].outcome = "ProviderError"
            /\ f.log[Len(f.log)].kind = "call"
            /\ f.log[Len(f.log)].outcome = None

\* C24: no step of a request changes the registry of the router: selection
\* (returning or raising), get_models_except and the sort of the fallbacks
\* work on lists of their own.
C24_RegistryUntouched ==
    [][(\E r \in Reqs : reqs'[r] # reqs[r]) => registry' = registry]_vars

\* a request in its fallback loop, whose sorted fallbacks are in another order
\* than the registry holds them
C24_Witness ==
    /\ \E r \in Reqs :
          /\ reqs[r].phase = "fallback"
          /\ reqs[r].fallbacks # <<>>
          /\ reqs[r].fallbacks # get_models_except(registry, reqs[r].model_cfg.name)
    /\ registry # PySortedByLatency(registry)

\* C25: the long-term collection only grows: every step of the memory manager
\* leaves the records it held in place and unchanged, so their number never
\* goes down.
C25_AppendOnly ==
    [][/\ Len(longmem'.docs) >= Len(longmem.docs)
       /\ SubSeq(longmem'.docs, 1, Len(longmem.docs)) = longmem.docs
       /\ longmem'.available = longmem.available]_vars

\* two exchanges of one session stored one after the other, then a context built
C25_Witness ==
    /\ Len(longmem.docs) >= 2
    /\ longmem.docs[1].metadata = longmem.docs[2].metadata
    /\ longmem.docs[1].text # longmem.docs[2].text
    /\ rcall.op = "build_context"

(***************************************************************************)
(* Properties of the adapters (checked under SpecProvider)                 *)
(***************************************************************************)
\* the failures of an adapter call other than its cancellation
FailuresOf(c) == {c.failures[i] : i \in 1..Len(c.failures)} \ BaseExceptionsOnly

\* the call was cancelled at its await
Cancelled(c) == \E i \in 1..Len(c.failures) : c.failures[i] \in BaseExceptionsOnly

\* a direct call of an adapter is recorded
AdapterCalled == rcall.op \in {"generate", "generate_stream"}

\* C26 as stated: every failure inside generate or generate_stream reaches the
\* caller as ProviderError: a call that was not cancelled, met a failure and
\* has ended has not returned, and what it raised is ProviderError.
C26_EveryFailureRaised ==
    (AdapterCalled /\ ~Cancelled(rcall) /\ FailuresOf(rcall) # {}
     /\ rcall.pc # "awaiting")
    => rcall.pc = "raised" /\ rcall.raised = "ProviderError"

\* C26, amended: the only exception type a call that was not cancelled raises
\* is ProviderError; a missing credential, a rate limit, a connection failure,
\* an HTTP error status and an unreadable body or stream item raise it, but a
\* stream line that is no JSON (at OpenRouter also one without the "choices"
\* or "delta" key) is skipped and the stream goes on.
C26_OnlyProviderErrorLeaves ==
    (AdapterCalled /\ ~Cancelled(rcall))
    => /\ rcall.pc = "raised" => rcall.raised = "ProviderError"
       /\ rcall.pc # "raised"
          => /\ rcall.raised = None
             /\ FailuresOf(rcall) # {}
                => /\ rcall.op = "generate_stream"
                   /\ FailuresOf(rcall) \subseteq InnerCaught(rcall.provider)
       /\ (FailuresOf(rcall) \ InnerCaught(rcall.provider) # {}
           \/ (rcall.op = "generate" /\ FailuresOf(rcall) # {}))
          => rcall.pc = "raised"

\* an OpenRouter stream that skipped a line that was no JSON and then raised
\* ProviderError for a chunk without choices
C26_Witness ==
    /\ AdapterCalled
    /\ rcall.op = "generate_stream"
    /\ rcall.provider = "openrouter"
    /\ rcall.failures = <<"JSONDecodeError", "IndexError">>
    /\ rcall.pc = "raised"
    /\ rcall.raised = "ProviderError"

(***************************************************************************)
(* Properties of the providers as the orchestrator uses them (under Spec)  *)
(***************************************************************************)
CredentialProviders == {"groq", "openrouter"}

\* C27: once the providers are constructed, a provider of Groq or OpenRouter
\* that got no credential stays unavailable through every step, and no
\* request holds a generate or generate_stream call made on it.
C27_NoCredentialNoCall ==
    [][\A p \in CredentialProviders :
          (initialized /\ ~avail[p])
          => /\ ~avail'[p]
             /\ \A r \in Reqs : \A i \in 1..Len(reqs'[r].log) :
                   reqs'[r].log[i].model.provider = p
                   => reqs'[r].log[i].kind # "call"]_vars

\* constructed without the Groq credential: a finished request passed over a
\* model of Groq as unavailable and called another provider
C27_Witness ==
    /\ initialized
    /\ ~avail["groq"]
    /\ \E r \in Reqs :
          /\ reqs[r].pc = "done"
          /\ \E i, j \in 1..Len(reqs[r].log) :
                /\ reqs[r].log[i].model.provider = "groq"
                /\ reqs[r].log[i].kind = "unavailable"
                /\ reqs[r].log[j].kind = "call"

(***************************************************************************)
(* Properties of what process_message returns and sends (under Spec)       *)
(***************************************************************************)
\* the name of the model whose generate call returned the text of a finished
\* process_message call, "none" when no call returned
ProducerOf(f) ==
    IF f.log # <<>> /\ f.log[Len(f.log)].kind = "call"
       /\ f.log[Len(f.log)].outcome = "ok"
    THEN f.log[Len(f.log)].model.name
    ELSE "none"

\* C28 as stated: model_used of a returned process_message result names the
\* model whose generate call produced the response text, and is "none" when
\* no model produced it (routing failure, exhaustion of the providers).
C28_ModelUsedIsProducer ==
    \A r \in Reqs :
        (reqs[r].op = "process_message" /\ reqs[r].pc = "done"
         /\ reqs[r].result.raised = None)
        => reqs[r].result.model_used = ProducerOf(reqs[r])

\* C29 as stated: the message list that process_message and process_stream
\* pass to a provider holds a user message with the input of the request.
C29_InputAmongMessages ==
    \A r \in Reqs :
        (\E i \in 1..Len(reqs[r].log) : reqs[r].log[i].kind = "call")
        => \E k \in 1..Len(reqs[r].messages) :
              reqs[r].messages[k] = Message("user", reqs[r].user_input)

\* C30: every generate and generate_stream call of the orchestrator, in the
\* primary attempt, in the fallback loop and in process_stream, is made on a
\* provider that reported available in the test of that very attempt.
C30_CalledOnlyIfAvailable ==
    \A r \in Reqs : \A i \in 1..Len(reqs[r].log) :
        reqs[r].log[i].kind = "call"
        => /\ reqs[r].log[i].ready
           /\ reqs[r].log[i].phase \in {"primary", "fallback", "stream"}

\* a request found the provider of its selected model unavailable, passed
\* over it and called a fallback whose provider reported available
C30_Witness ==
    \E r \in Reqs :
        LET f == reqs[r]
        IN  /\ Len(f.log) >= 2
            /\ f.log[1].phase = "primary"
            /\ f.log[1].kind = "unavailable" /\ ~f.log[1].ready
            /\ f.log[Len(f.log)].phase = "fallback"
            /\ f.log[Len(f.log)].kind = "call" /\ f.log[Len(f.log)].ready

(***************************************************************************)
(* Further properties of process_message (checked under Spec)              *)
(***************************************************************************)
\* the entries of a request's log that are generate calls
CallLog(f) == SelectSeq(f.log, LAMBDA e : e.kind = "call")

\* C31: within one process_message request every registry model is
\* considered at most once, the selected model in the primary attempt only
\* (whether its call failed or it was passed over as unavailable), so the
\* request makes at most as many generate calls as the registry has models.
C31_EachModelOnce ==
    \A r \in Reqs :
        LET f == reqs[r]
        IN  (f.op = "process_message" /\ f.log # <<>>)
            => /\ \A i, j \in 1..Len(f.log) :
                     i # j => f.log[i].model.name # f.log[j].model.name
               /\ \A i \in 2..Len(f.log) : f.log[i].model.name # f.model_cfg.name
               /\ \A i \in 1..Len(f.log) :
                     \E k \in 1..Len(registry) : registry[k] = f.log[i].model
               /\ Len(CallLog(f)) <= Len(registry)

\* a finished request whose selected model was passed over as unavailable and
\* one whose every model was called, each time in vain
C31_Witness ==
    \E r \in Reqs :
        LET f == reqs[r]
        IN  /\ f.op = "process_message" /\ f.pc = "done"
            /\ Len(f.log) = Len(registry)
            /\ f.log[1].kind = "unavailable"
            /\ Len(CallLog(f)) >= 2
            /\ \A i \in 2..Len(f.log) :
                  f.log[i].kind = "call" => f.log[i].outcome = "ProviderError"

\* every availability test the request made found the provider missing or
\* unavailable
NoneReady(f) == \A i \in 1..Len(f.log) : ~f.log[i].ready

\* C32 as stated: a process_message call for which no provider reported
\* available (the list given to the router was empty) passes routing, makes
\* no generate call and returns the unavailability message.
C32_NoCallWhenListEmpty ==
    \A r \in Reqs :
        LET f == reqs[r]
        IN  (f.op = "process_message" /\ f.pc = "done" /\ f.available = <<>>)
            => /\ f.phase # None
               /\ CallLog(f) = <<>>
               /\ f.result.response = UNAVAILABLE_MESSAGE

\* C32, amended: the empty list reaches the router as no restriction, so
\* routing fails only under force_offline on a registry without an
\* offline-capable model; a call that passed routing and whose every later
\* availability test failed as well makes no generate call, having considered
\* every model of the registry, and returns the unavailability message.  (A
\* provider that reports available only after routing is called.)
C32_NoCallWhenNoneAvailable ==
    \A r \in Reqs :
        LET f == reqs[r]
        IN  (f.op = "process_message" /\ f.pc = "done" /\ f.available = <<>>)
            => /\ f.phase = None
                  => /\ f.force_offline
                     /\ \A k \in 1..Len(registry) : ~registry[k].offline_capable
               /\ (f.phase # None /\ NoneReady(f))
                  => /\ CallLog(f) = <<>>
                     /\ Len(f.log) = Len(registry)
                     /\ f.result.response = UNAVAILABLE_MESSAGE
                     /\ f.result.raised = None
               /\ (f.phase # None /\ ~NoneReady(f)) => CallLog(f) # <<>>

\* no provider available from routing to the end of a request that considered
\* the selected model and then every other model of the registry
C32_Witness ==
    \E r \in Reqs :
        LET f == reqs[r]
        IN  /\ f.op = "process_message" /\ f.pc = "done"
            /\ f.available = <<>>
            /\ ~f.force_offline
            /\ NoneReady(f)
            /\ Len(f.log) = Len(registry)
            /\ \A i \in 1..Len(f.log) : f.log[i].kind = "unavailable"
            /\ f.result.response = UNAVAILABLE_MESSAGE

\* C33: a process_message call that passed routing has, when it is done,
\* performed save_interaction once, with its input and the text it returns,
\* the unavailability message included: these two messages are all it added
\* and the last two of the session buffer (the limit being at least 2), and
\* the long-term store, if there is one, got the one record of the exchange.
C33_SavedOnce ==
    \A r \in Reqs :
        LET f == reqs[r]
            pair == <<Message("user", f.user_input),
                      Message("assistant", f.result.response)>>
            buf == store[f.session_id]
        IN  (f.op = "process_message" /\ f.pc = "done" /\ f.phase # None)
            => /\ f.result.raised = None
               /\ f.saved = pair
               /\ limit >= 2
                  => /\ Len(buf) >= 2
                     /\ SubSeq(buf, Len(buf) - 1, Len(buf)) = pair
               /\ f.stored = IF longmem.available THEN 1 ELSE 0
               /\ longmem.available
                  => /\ longmem.docs # <<>>
                     /\ longmem.docs[Len(longmem.docs)] =
                           ExchangeRecord(f.session_id, f.user_input,
                                          f.result.response)

\* every generate call of a request failed: the unavailability message is
\* saved behind the input, in the buffer and in the long-term store
C33_Witness ==
    \E r \in Reqs :
        LET f == reqs[r]
        IN  /\ f.op = "process_message" /\ f.pc = "done" /\ f.phase # None
            /\ CallLog(f) # <<>>
            /\ f.result.response = UNAVAILABLE_MESSAGE
            /\ store[f.session_id] = <<Message("user", f.user_input),
                                       Message("assistant", UNAVAILABLE_MESSAGE)>>
            /\ longmem.available /\ Len(longmem.docs) = 1

(***************************************************************************)
(* Further properties of process_stream (checked under Spec)               *)
(***************************************************************************)
\* the step is one of the process_stream call in slot r
StreamStep(r) ==
    /\ reqs'[r] # reqs[r]
    /\ reqs[r].op = "process_stream" \/ reqs'[r].op = "process_stream"

\* the step in which the provider stream of call r ends normally
StreamEndsNormally(r) ==
    /\ reqs[r].op = "process_stream"
    /\ reqs[r].pc = "streaming"
    /\ reqs'[r].pc = "done"

\* C34: the step in which the provider stream ends normally commits the turn:
\* the user input and, as assistant text, the concatenation in order of the
\* fragments yielded to the consumer go to the session buffer and, as one
\* record, to the long-term store if there is one.  No other step of a
\* process_stream call (its start, a fragment, the failure of the stream, the
\* message for an unavailable provider, its last resumption, its close, the
\* taking of its result) changes the buffers or the long-term store.
C34_StreamCommitsOnNormalEnd ==
    [][\A r \in Reqs :
          /\ StreamEndsNormally(r)
             => LET f == reqs[r]
                    text == PyJoin(f.emitted)
                IN  /\ store' = SaveShort(store, limit, f.session_id,
                                          f.user_input, text)
                    /\ longmem' = SaveLong(longmem, f.session_id,
                                           f.user_input, text)
                    /\ reqs'[r].emitted = f.emitted
                    /\ reqs'[r].result.response = text
          /\ (StreamStep(r) /\ ~StreamEndsNormally(r))
             => store' = store /\ longmem' = longmem
      ]_vars

\* a stream that failed after its first fragment has ended, and nothing is
\* in the memories
C34_Witness ==
    \E r \in Reqs :
        LET f == reqs[r]
        IN  /\ f.op = "process_stream" /\ f.pc = "done"
            /\ f.log # <<>>
            /\ f.log[1].outcome = "ProviderError"
            /\ Len(f.full_response) = 1 /\ Len(f.emitted) = 2
            /\ store = EmptyStore
            /\ longmem.available /\ longmem.docs = <<>>

(***************************************************************************)
(* Properties of the router the orchestrator holds (checked under Spec)    *)
(***************************************************************************)
\* C35 as stated: a router installed with set_router, before or after the
\* initialization, is the one the later calls use: initialize leaves an
\* installed router in place, and a call that passes routing has its model
\* from the registry of the router held.
C35_InstalledRouterUsed ==
    [][/\ (registry # <<>> /\ ~initialized /\ initialized') => registry' = registry
       /\ \A r \in Reqs :
             (reqs[r].pc = "idle" /\ reqs'[r].pc # "idle" /\ reqs'[r].phase # None)
             => \E k \in 1..Len(registry) : registry[k] = reqs'[r].model_cfg
      ]_vars

(***************************************************************************)
(* Properties of the sessions (checked under SpecManager)                  *)
(***************************************************************************)
\* C36: a call of add, save_interaction, clear or build_context on one
\* session key, with the trimming it entails, leaves the buffer of every
\* other session key as it was, and a session to which nothing was added
\* since the start or its last clear has an empty buffer.
C36_SessionsIsolated ==
    [][/\ \A t \in Sessions \ {rcall'.session_id} : store'[t] = store[t]
       /\ \A s \in Sessions : added'[s] = <<>> => get_context(store', s) = <<>>
      ]_vars

\* one session was cleared while the other holds a trimmed buffer
C36_Witness ==
    /\ rcall.op = "clear"
    /\ store[rcall.session_id] = <<>>
    /\ \E t \in Sessions \ {rcall.session_id} :
          /\ Len(added[t]) > limit
          /\ Len(store[t]) = limit
          /\ limit >= 2

(***************************************************************************)
(* Further properties of the short-term memory (checked under SpecMem)     *)
(***************************************************************************)
\* s is what is left of a when a number of its first elements are dropped
IsSuffix(s, a) ==
    /\ Len(s) <= Len(a)
    /\ \A k \in 1..Len(s) : s[k] = a[Len(a) - Len(s) + k]

\* C37: the non-system messages a session buffer holds are, in the order
\* added, the most recent of the non-system messages added to the session
\* since its last clear: what is evicted is the oldest of them.
C37_RecentSuffix ==
    \A s \in Sessions :
        IsSuffix(SelectSeq(store[s], NotSystem), SelectSeq(added[s], NotSystem))

\* two non-system messages were evicted around a pinned system message, and
\* the two kept are the most recent
C37_Witness ==
    \E s \in Sessions :
        /\ limit = 3
        /\ Len(added[s]) = 5
        /\ added[s][2].role = "system"
        /\ SystemCount(added[s]) = 1
        /\ store[s] = <<added[s][2], added[s][4], added[s][5]>>

(***************************************************************************)
(* Termination of process_message (checked under SpecLive)                 *)
(***************************************************************************)
\* C38: every process_message call that was begun ends by returning a
\* result, provided each generate call it awaits returns or raises.
C38_Terminates ==
    \A r \in Reqs :
        (reqs[r].op = "process_message" /\ reqs[r].pc # "idle")
        ~> (reqs[r].pc = "done" /\ reqs[r].result.raised = None)

\* a call that returned the unavailability message after every model of the
\* registry was called and failed
C38_Witness ==
    \E r \in Reqs :
        LET f == reqs[r]
        IN  /\ f.op = "process_message" /\ f.pc = "done"
            /\ Len(CallLog(f)) = Len(registry)
            /\ f.result.response = UNAVAILABLE_MESSAGE

(***************************************************************************)
(* Properties of the message list (checked under SpecTurns)                *)
(***************************************************************************)
\* C39: the message list a process_message or process_stream call builds is
\* the system prompt, then the summary of the long-term memories if the
\* search returned any, then the messages of the session buffer as it is at
\* that moment, in buffer order; and a session buffer holds user and
\* assistant messages only.
C39_MessagesOrdered ==
    [][/\ \A r \in Reqs :
             (reqs[r].pc = "idle" /\ reqs'[r].pc # "idle")
             => LET m == reqs'[r].messages
                    buf == store[reqs'[r].session_id]
                IN  /\ m # <<>>
                    /\ m[1] = Message("system", SYSTEM_PROMPT)
                    /\ \/ Tail(m) = buf
                       \/ /\ Len(m) = Len(buf) + 2
                          /\ m[2].role = "system"
                          /\ m[2].content[1] = "Relevant past interactions:\n"
                          /\ longmem.docs # <<>>
                          /\ SubSeq(m, 3, Len(m)) = buf
       /\ \A s \in Sessions : \A k \in 1..Len(store'[s]) :
             store'[s][k].role \in {"user", "assistant"}
      ]_vars

\* the second call of a session, a stream: its list is the prompt, the
\* summary of the first exchange, and the two messages of that exchange
C39_Witness ==
    \E r \in Reqs :
        LET f == reqs[r]
        IN  /\ f.op = "process_stream" /\ f.pc = "streaming"
            /\ Len(f.messages) = 4
            /\ f.messages[1] = Message("system", SYSTEM_PROMPT)
            /\ f.messages[2].role = "system"
            /\ f.messages[2] # f.messages[1]
            /\ f.messages[3].role = "user"
            /\ f.messages[4].role = "assistant"
            /\ SubSeq(f.messages, 3, 4) = store[f.session_id]

====
